---- MODULE Spec2Model ----
(***************************************************************************)
(* Epicenter engine of the AUREON trading system                           *)
(* (src/scripts/epicenter): the multi-symbol engine loop, the websocket    *)
(* callback that feeds it, the strategies, the vote blend, the rule        *)
(* enforcer, the order router and the Lighthouse gate.                     *)
(*                                                                         *)
(* Numbers.  Python floats are modelled as exact rationals <<n, d>> with   *)
(* d > 0 and gcd(n, d) = 1, so that the model's arithmetic is the real     *)
(* arithmetic the code approximates.  The clock time.time() is an integer  *)
(* number of seconds.                                                      *)
(***************************************************************************)
EXTENDS Integers, Sequences, FiniteSets, TLC

VARIABLES
    rules,      \* engine.py:100   rules[s]: cached exchange rule of symbol s
    dry,        \* router.py:12    DRY_RUN (EPICENTER_LIVE # YES)
    cooldown,   \* engine.py:138   EPICENTER_COOLDOWN_SEC
    prices,     \* engine.py:103   shared latest-price slot per symbol
    strats,     \* engine.py:99    strats[s]: <<Momentum.buf, MeanReversion.buf>>
    bal,        \* engine.py:134   ledger: asset -> balance
    next_t,     \* engine.py:137   next eligible time per symbol
    trades,     \* engine.py:142   global counter of routed orders
    done,       \* engine.py:144   routed orders per symbol
    now,        \* engine.py:153   loop time of the current wake cycle
    gate,       \* engine.py:156   what load_lighthouse_gate() returned at the last wake
    pc,         \* engine loop position: "wait", "iter", "exit"
    idx,        \* engine.py:160   position of the for loop in symbols
    all_done,   \* engine.py:159
    placed,     \* router.py:24    per symbol: the last place_market call that returned
    votes,      \* engine.py:170   vote list handed to the blend (SpecBlend)
    side,       \* engine.py:171   blended decision (SpecBlend)
    enf_in,     \* risk.py:10      arguments of enforce_rules (SpecEnforce)
    enf_out,    \* risk.py:10      result of enforce_rules (SpecEnforce)
    env,        \* os.getenv: the environment main() and the router read
    discovered, \* engine.py:91    fetch_spot_universe has been called
    ws_started, \* engine.py:131   the websocket thread has been started
    rt_in,      \* router.py:24    arguments of place_market (SpecRouter)
    rt_out,     \* router.py:24    outcome of place_market (SpecRouter)
    fed,        \* the prices handed to on_price so far, in order (SpecStrategy)
    sbuf,       \* strategy_api.py:17,40  the two strategies' buf (SpecStrategy)
    sigs,       \* votes of the signal() calls since the last on_price (SpecStrategy)
    g_in,       \* engine.py:67    metrics file and environment of the gate (SpecGate)
    g_out,      \* engine.py:67    result of load_lighthouse_gate (SpecGate)
    boot_list,  \* engine.py:88    the symbols list of main() (SpecRules)
    boot_i,     \* engine.py:100   position of the dict comprehension in it (SpecRules)
    built,      \* engine.py:100   the rules dict so far (SpecRules)
    cache,      \* autopilot.py:57 self._exchange_rules (SpecRules)
    reqs,       \* GET /v3/exchangeInfo requests sent, per program and symbol (SpecRules)
    looked,     \* the last rule lookup and what it gave (SpecRules)
    u_in,       \* universe.py:8   arguments and exchange answers of fetch_spot_universe
    u_out,      \* universe.py:8   result of fetch_spot_universe (SpecUniverse)
    mr_in,      \* strategy_api.py:14  a MeanReversion and the prices fed to it
    mr_out,     \* strategy_api.py:22  what its signal() returned (SpecMeanRev)
    fl_in,      \* arguments of a call in binary64 arithmetic (SpecFloat)
    fl_out,     \* its result (SpecFloat)
    race,       \* strategy_api.py:22,55  a signal() call in progress (SpecRace)
    ev,         \* engine.py:166-215  the locals of one evaluation of a symbol (SpecEval)
    sim,        \* multi_sim_ws.py:80-171  a SimAccount and its last trade_once call
    tri         \* the arguments and the results of the three enforcers (SpecThree)

engineVars == <<rules, dry, cooldown, prices, strats, bal, next_t, trades,
                done, now, gate, pc, idx, all_done, placed>>
blendVars == <<votes, side>>
enfVars == <<enf_in, enf_out>>
bootVars == <<env, discovered, ws_started>>
routerVars == <<rt_in, rt_out>>
stratVars == <<fed, sbuf, sigs>>
gateVars == <<g_in, g_out>>
rulesVars == <<boot_list, boot_i, built, cache, reqs, looked>>
uniVars == <<u_in, u_out>>
mrVars == <<mr_in, mr_out>>
floatVars == <<fl_in, fl_out>>
threadVars == <<race, ev, sim, tri>>
pureVars == <<rulesVars, uniVars, mrVars, floatVars, threadVars>>
\* what the engine loop and the websocket callback never write
restVars == <<bootVars, routerVars, stratVars, gateVars, pureVars>>
vars == <<rules, dry, cooldown, prices, strats, bal, next_t, trades,
          done, now, gate, pc, idx, all_done, placed, votes, side, enf_in, enf_out,
          env, discovered, ws_started, rt_in, rt_out, fed, sbuf, sigs, g_in, g_out,
          boot_list, boot_i, built, cache, reqs, looked, u_in, u_out,
          mr_in, mr_out, fl_in, fl_out, race, ev, sim, tri>>

(***************************************************************************)
(* Exact rational arithmetic                                               *)
(***************************************************************************)
Abs(n) == IF n < 0 THEN -n ELSE n

RECURSIVE GCD(_, _)
GCD(a, b) == IF b = 0 THEN a ELSE GCD(b, a % b)

\* the rational n/d in lowest terms, d # 0
Rat(n, d) ==
    LET sn == IF d < 0 THEN -n ELSE n
        sd == Abs(d)
        g  == GCD(Abs(sn), sd)
    IN  IF sn = 0 THEN <<0, 1>> ELSE <<sn \div g, sd \div g>>

Zero == <<0, 1>>
RInt(i) == <<i, 1>>
RAdd(a, b) == Rat(a[1] * b[2] + b[1] * a[2], a[2] * b[2])
RSub(a, b) == Rat(a[1] * b[2] - b[1] * a[2], a[2] * b[2])
RMul(a, b) == Rat(a[1] * b[1], a[2] * b[2])
RDiv(a, b) == Rat(a[1] * b[2], a[2] * b[1])
RLt(a, b) == a[1] * b[2] < b[1] * a[2]
RLe(a, b) == a[1] * b[2] <= b[1] * a[2]
\* Python's max(a, b): b only when it is strictly greater
RMax(a, b) == IF RLt(a, b) THEN b ELSE a
\* math.floor
RFloor(a) == a[1] \div a[2]

\* Python's None
None == <<>>

(***************************************************************************)
(* Python float arithmetic: IEEE 754 binary64, round to nearest, ties to   *)
(* even.  A float is [s, m, e] with value s * m * 2^e: s the sign (0 for   *)
(* zero), m the 53-bit significand as a natural number in limbs of 15      *)
(* bits, least significant first.  The values of the model are far from    *)
(* the subnormal range and from overflow; neither is modelled.             *)
(***************************************************************************)
LimbBits == 15
Limb == 32768
Precision == 53

RECURSIVE BigOf(_)
\* the natural number n in limbs
BigOf(n) == IF n = 0 THEN <<>> ELSE <<n % Limb>> \o BigOf(n \div Limb)

\* the index of the last non-zero limb of a, 0 if there is none
TopLimb(a) ==
    LET nz == {i \in 1..Len(a) : a[i] # 0}
    IN  IF nz = {} THEN 0 ELSE CHOOSE i \in nz : \A j \in nz : j <= i
\* a without its leading zero limbs
BNorm(a) == SubSeq(a, 1, TopLimb(a))

\* limb i of a, 0 beyond its length
LimbAt(a, i) == IF i >= 1 /\ i <= Len(a) THEN a[i] ELSE 0
Longer(a, b) == IF Len(a) < Len(b) THEN Len(b) ELSE Len(a)

\* the carry into limb i of a + b: a lower limb overflows and every limb
\* between passes the carry on
CarryInto(a, b, i) ==
    \E j \in 1..(i - 1) :
        /\ LimbAt(a, j) + LimbAt(b, j) >= Limb
        /\ \A l \in (j + 1)..(i - 1) : LimbAt(a, l) + LimbAt(b, l) = Limb - 1
BAdd(a, b) ==
    BNorm([i \in 1..(Longer(a, b) + 1) |->
              (LimbAt(a, i) + LimbAt(b, i)
                 + (IF CarryInto(a, b, i) THEN 1 ELSE 0)) % Limb])

\* the borrow from limb i of a - b
BorrowFrom(a, b, i) ==
    \E j \in 1..(i - 1) :
        /\ LimbAt(a, j) < LimbAt(b, j)
        /\ \A l \in (j + 1)..(i - 1) : LimbAt(a, l) = LimbAt(b, l)
\* a - b for a >= b
BSub(a, b) ==
    BNorm([i \in 1..Len(a) |->
              (LimbAt(a, i) - LimbAt(b, i)
                 - (IF BorrowFrom(a, b, i) THEN 1 ELSE 0) + Limb) % Limb])

\* a < b
BLt(a, b) ==
    IF Len(a) # Len(b) THEN Len(a) < Len(b)
    ELSE LET diff == {i \in 1..Len(a) : a[i] # b[i]}
         IN  diff # {} /\ LET top == CHOOSE i \in diff : \A j \in diff : j <= i
                          IN  a[top] < b[top]

\* a * k + c for 0 <= k, c < Limb: the low and the high halves of the limb
\* products, added
BMulSmall(a, k, c) ==
    BAdd(BAdd([i \in 1..Len(a) |-> (a[i] * k) % Limb],
              <<0>> \o [i \in 1..Len(a) |-> (a[i] * k) \div Limb]),
         BNorm(<<c>>))

RECURSIVE BMulRec(_, _)
BMulRec(a, b) ==
    IF b = <<>> THEN <<>>
    ELSE BAdd(BMulSmall(a, Head(b), 0), <<0>> \o BMulRec(a, Tail(b)))
BMul(a, b) == BNorm(BMulRec(a, b))

Pow2(n) ==
    <<1, 2, 4, 8, 16, 32, 64, 128, 256, 512, 1024, 2048, 4096, 8192, 16384,
      32768>>[n + 1]
\* the number of bits of n < Limb
SmallBitLen(n) == CHOOSE k \in 0..LimbBits : n < Pow2(k) /\ (k = 0 \/ n >= Pow2(k - 1))
\* the number of bits of a
BitLen(a) ==
    IF a = <<>> THEN 0 ELSE LimbBits * (Len(a) - 1) + SmallBitLen(a[Len(a)])
\* bit i of a, bit 0 the least significant
Bit(a, i) == (LimbAt(a, i \div LimbBits + 1) \div Pow2(i % LimbBits)) % 2

\* a * 2^n
Shl(a, n) ==
    LET w == n \div LimbBits
        s == n % LimbBits
    IN  BNorm([i \in 1..(Len(a) + w + 1) |->
                  IF i <= w THEN 0
                  ELSE ((LimbAt(a, i - w) * Pow2(s)) % Limb)
                       + (LimbAt(a, i - w - 1) \div Pow2(LimbBits - s))])
\* a \div 2^n
Shr(a, n) ==
    LET w == n \div LimbBits
        s == n % LimbBits
    IN  IF w >= Len(a) THEN <<>>
        ELSE BNorm([i \in 1..(Len(a) - w) |->
                       (a[i + w] \div Pow2(s))
                       + ((LimbAt(a, i + w + 1) % Pow2(s)) * Pow2(LimbBits - s))])
\* a is not a multiple of 2^n
LowBits(a, n) == Shl(Shr(a, n), n) # a

Least(x, y) == IF x < y THEN x ELSE y
\* the largest member of a non-empty set of numbers
MaxOf(S) == CHOOSE x \in S : \A y \in S : y <= x
\* the quotient limb for the estimate est from the top limbs, which is at
\* most 2 too large: the largest of three candidates that fits in cur
QuotNear(cur, b, qhat) ==
    MaxOf({x \in {qhat, qhat - 1, qhat - 2} :
              x >= 0 /\ ~BLt(cur, BMulSmall(b, x, 0))})
\* the quotient limb of cur by b, for cur < b * Limb and a b whose top limb
\* is >= Limb / 2
QuotLimb(cur, b) ==
    QuotNear(cur, b, Least((LimbAt(cur, Len(b) + 1) * Limb + LimbAt(cur, Len(b)))
                               \div b[Len(b)],
                           Limb - 1))
RECURSIVE BDivLimbs(_, _, _, _, _)
RECURSIVE BDivQuot(_, _, _, _, _, _)
\* long division of a by b, limb i of a next; q and r so far
BDivLimbs(a, b, i, q, r) ==
    IF i = 0 THEN [q |-> q, r |-> r]
    ELSE BDivQuot(a, b, i, q, BNorm(<<a[i]>> \o r), QuotLimb(BNorm(<<a[i]>> \o r), b))
\* the same with the quotient limb c of cur
BDivQuot(a, b, i, q, cur, c) ==
    IF c = 0 THEN BDivLimbs(a, b, i - 1, <<0>> \o q, cur)
    ELSE BDivLimbs(a, b, i - 1, <<c>> \o q, BSub(cur, BMulSmall(b, c, 0)))
BDivScaled(as, bs) == BDivLimbs(as, bs, Len(as), <<>>, <<>>)
\* quotient q and remainder r of a by b > 0, both scaled to bring the top
\* limb of b to Limb / 2 or more; r is the remainder of the scaled operands
BDivMod(a, b) ==
    BDivScaled(Shl(a, LimbBits - SmallBitLen(b[Len(b)])),
               Shl(b, LimbBits - SmallBitLen(b[Len(b)])))

\* q1 at exponent e, brought back to Precision bits after a carry
RoundCarry(q1, e) ==
    IF BitLen(q1) > Precision THEN [m |-> Shr(q1, 1), e |-> e + 1]
    ELSE [m |-> q1, e |-> e]
\* n without its sh lowest bits, which is q, rounded up on more than a
\* half and on a half when q is odd
RoundCut(n, e, sh, q) ==
    RoundCarry(IF Bit(n, sh - 1) = 1 /\ (LowBits(n, sh - 1) \/ Bit(q, 0) = 1)
               THEN BAdd(q, <<1>>) ELSE q,
               e + sh)
RoundLen(n, e, len) ==
    IF len <= Precision
    THEN [m |-> Shl(n, Precision - len), e |-> e - (Precision - len)]
    ELSE RoundCut(n, e, len - Precision, Shr(n, len - Precision))
\* the float nearest to n * 2^e, for a natural number n > 0, ties to even
RoundBig(n, e) == RoundLen(n, e, BitLen(n))

F0 == [s |-> 0, m |-> <<>>, e |-> 0]
Signed(sgn, r) == [s |-> sgn, m |-> r.m, e |-> r.e]

\* the quotient doubled, its lowest bit set when there is a remainder
RoundQuot(sgn, qr, e) ==
    Signed(sgn, RoundBig(BMulSmall(BNorm(qr.q), 2, IF qr.r = <<>> THEN 0 ELSE 1), e))
RoundDivShifted(sgn, a, b, e, k) == RoundQuot(sgn, BDivMod(Shl(a, k), b), e - k - 1)
\* the float nearest to sgn * a / b * 2^e, for natural numbers a, b > 0
RoundDiv(sgn, a, b, e) ==
    RoundDivShifted(sgn, a, b, e,
                    IF BitLen(a) > BitLen(b) THEN Precision + 3
                    ELSE Precision + 3 + BitLen(b) - BitLen(a))

\* float(text) of the decimal text of n/d, and float(n)
FromRat(x) ==
    IF x[1] = 0 THEN F0
    ELSE RoundDiv(IF x[1] < 0 THEN -1 ELSE 1,
                  BigOf(IF x[1] < 0 THEN -x[1] ELSE x[1]), BigOf(x[2]), 0)
FromInt(n) ==
    IF n = 0 THEN F0
    ELSE Signed(IF n < 0 THEN -1 ELSE 1, RoundBig(BigOf(IF n < 0 THEN -n ELSE n), 0))

FNeg(a) == [a EXCEPT !.s = -a.s]
\* a * b
FMul(a, b) ==
    IF a.s = 0 \/ b.s = 0 THEN F0
    ELSE Signed(a.s * b.s, RoundBig(BMul(a.m, b.m), a.e + b.e))
\* a / b, b # 0
FDiv(a, b) ==
    IF a.s = 0 THEN F0 ELSE RoundDiv(a.s * b.s, a.m, b.m, a.e - b.e)
\* sa * x * 2^e + sb * y * 2^e for x, y > 0
FAddAligned(sa, sb, x, y, e) ==
    IF sa # sb /\ x = y THEN F0
    ELSE Signed(IF sa = sb \/ BLt(y, x) THEN sa ELSE sb,
                RoundBig(IF sa = sb THEN BAdd(x, y)
                         ELSE IF BLt(x, y) THEN BSub(y, x) ELSE BSub(x, y),
                         e))
FAddAt(a, b, e) == FAddAligned(a.s, b.s, Shl(a.m, a.e - e), Shl(b.m, b.e - e), e)
\* a + b
FAdd(a, b) ==
    IF a.s = 0 THEN b
    ELSE IF b.s = 0 THEN a
    ELSE FAddAt(a, b, IF a.e < b.e THEN a.e ELSE b.e)
FSub(a, b) == FAdd(a, FNeg(b))
\* |a| < |b| for a, b # 0
MagLt(a, b, e) == BLt(Shl(a.m, a.e - e), Shl(b.m, b.e - e))
\* a < b, a <= b
FLt(a, b) ==
    IF a.s # b.s THEN a.s < b.s
    ELSE IF a.s = 0 THEN FALSE
    ELSE IF a.s > 0 THEN MagLt(a, b, IF a.e < b.e THEN a.e ELSE b.e)
    ELSE MagLt(b, a, IF a.e < b.e THEN a.e ELSE b.e)
FLe(a, b) == ~FLt(b, a)
\* max(a, b) of Python: b only if b > a
FMax(a, b) == IF FLt(a, b) THEN b ELSE a

RECURSIVE BToInt(_)
BToInt(a) == IF a = <<>> THEN 0 ELSE Head(a) + Limb * BToInt(Tail(a))
FloorOf(sgn, whole, frac) ==
    IF sgn > 0 THEN whole ELSE IF frac THEN -(whole + 1) ELSE -whole
\* math.floor(a), for |a| < 2^30
FFloor(a) ==
    IF a.s = 0 THEN 0
    ELSE IF a.e >= 0 THEN a.s * BToInt(Shl(a.m, a.e))
    ELSE FloorOf(a.s, BToInt(Shr(a.m, -a.e)), LowBits(a.m, -a.e))

(***************************************************************************)
(* risk.py                                                                 *)
(***************************************************************************)
floor_to_step(qty, step) ==
    IF RLe(step, Zero) THEN qty
    ELSE RMul(RInt(RFloor(RDiv(qty, step))), step)

enforce_rules(qty, price, min_qty, step, min_notional) ==
    LET q0 == RMax(qty, min_qty)
        q  == IF step # Zero THEN floor_to_step(q0, step) ELSE q0
    IN  IF RLe(q, Zero) THEN None
        ELSE IF min_notional # Zero /\ RLt(RMul(q, price), min_notional)
             THEN LET need == RDiv(min_notional, price)
                      q2   == floor_to_step(RMax(need, min_qty), step)
                  IN  IF RLt(RMul(q2, price), min_notional) THEN None ELSE q2
             ELSE q

(***************************************************************************)
(* engine.py:169-175, the blend of the strategies' votes                   *)
(***************************************************************************)
Vote == {"BUY", "SELL", "HOLD"}

\* list.count
RECURSIVE Count(_, _)
Count(vs, v) ==
    IF vs = <<>> THEN 0
    ELSE (IF Head(vs) = v THEN 1 ELSE 0) + Count(Tail(vs), v)

\* the blend with >= for >: a tie goes to BUY
BlendGe(vs) ==
    IF Count(vs, "BUY") >= Count(vs, "SELL") /\ Count(vs, "BUY") > 0 THEN "BUY"
    ELSE IF Count(vs, "SELL") >= Count(vs, "BUY") /\ Count(vs, "SELL") > 0 THEN "SELL"
    ELSE "HOLD"

Blend(vs) ==
    IF Count(vs, "BUY") > Count(vs, "SELL") /\ Count(vs, "BUY") > 0 THEN "BUY"
    ELSE IF Count(vs, "SELL") > Count(vs, "BUY") /\ Count(vs, "SELL") > 0 THEN "SELL"
    ELSE "HOLD"

(***************************************************************************)
(* strategy_api.py                                                         *)
(***************************************************************************)
\* an append that a full deque refuses: the newest price is dropped
Append_maxlenKeepOld(buf, p, cap) ==
    IF cap = 0 THEN <<>>
    ELSE IF Len(buf) < cap THEN Append(buf, p)
    ELSE buf

\* deque(maxlen = cap).append(p): the oldest element leaves a full deque
Append_maxlen(buf, p, cap) ==
    IF cap = 0 THEN <<>>
    ELSE IF Len(buf) < cap THEN Append(buf, p)
    ELSE Append(Tail(buf), p)

\* Momentum._ema: the loop over list(buf)[1:], started at buf[0]
RECURSIVE EmaFold(_, _, _)
EmaFold(ema, rest, alpha) ==
    IF rest = <<>> THEN ema
    ELSE EmaFold(RAdd(RMul(alpha, Head(rest)), RMul(RSub(RInt(1), alpha), ema)),
                 Tail(rest), alpha)

Momentum_ema(buf, period) ==
    IF buf = <<>> THEN Zero
    ELSE EmaFold(buf[1], Tail(buf), Rat(2, period + 1))

Momentum_signal(buf, fast, slow) ==
    IF Len(buf) < slow THEN "HOLD"
    ELSE LET f == Momentum_ema(buf, fast)
             s == Momentum_ema(buf, slow)
         IN  IF RLt(s, f) THEN "BUY"
             ELSE IF RLt(f, s) THEN "SELL"
             ELSE "HOLD"

RECURSIVE RSum(_)
RSum(buf) == IF buf = <<>> THEN Zero ELSE RAdd(Head(buf), RSum(Tail(buf)))

RECURSIVE SqDevSum(_, _)
SqDevSum(buf, mean) ==
    IF buf = <<>> THEN Zero
    ELSE RAdd(RMul(RSub(Head(buf), mean), RSub(Head(buf), mean)),
              SqDevSum(Tail(buf), mean))

\* d >= z * sqrt(v) for rationals d, z and v >= 0, decided without the root
GeScaledRoot(d, z, v) ==
    IF RLe(Zero, z)
    THEN RLe(Zero, d) /\ RLe(RMul(RMul(z, z), v), RMul(d, d))
    ELSE RLe(Zero, d) \/ RLe(RMul(d, d), RMul(RMul(z, z), v))

\* a signal() that takes the sample deviation, dividing by n - 1
MeanReversion_signal_sample(buf, z) ==
    IF Len(buf) < 5 THEN "HOLD"
    ELSE LET n    == RInt(Len(buf))
             mean == RDiv(RSum(buf), n)
             var  == RDiv(SqDevSum(buf, mean), RInt(Len(buf) - 1))
             d    == RSub(buf[Len(buf)], mean)
             le   == IF var = Zero THEN RLe(z, Zero)
                     ELSE GeScaledRoot(RSub(Zero, d), z, var)
             ge   == IF var = Zero THEN RLe(z, Zero)
                     ELSE GeScaledRoot(d, z, var)
         IN  IF le THEN "BUY" ELSE IF ge THEN "SELL" ELSE "HOLD"

\* MeanReversion.signal.  dev = max(1e-12, sqrt(var)); the prices of the
\* model are far apart compared with 1e-12, so the floor acts only when
\* var = 0, where last = mean and zscore = 0.
MeanReversion_signal(buf, z) ==
    IF Len(buf) < 5 THEN "HOLD"
    ELSE LET n    == RInt(Len(buf))
             mean == RDiv(RSum(buf), n)
             var  == RDiv(SqDevSum(buf, mean), n)
             d    == RSub(buf[Len(buf)], mean)
             le   == IF var = Zero THEN RLe(z, Zero)
                     ELSE GeScaledRoot(RSub(Zero, d), z, var)
             ge   == IF var = Zero THEN RLe(z, Zero)
                     ELSE GeScaledRoot(d, z, var)
         IN  IF le THEN "BUY" ELSE IF ge THEN "SELL" ELSE "HOLD"

(***************************************************************************)
(* engine.py: configuration and construction                               *)
(***************************************************************************)
\* EPICENTER_SYMBOLS, engine.py:86-88
symbols == <<"BTCUSDT", "ETHBTC">>
Symbol == {symbols[i] : i \in 1..Len(symbols)}
Asset == {"BTC", "USDT", "ETH"}

\* engine.py:99 builds Momentum(fast=5, slow=20) and MeanReversion(window=30,
\* z=1.2); the periods are scaled down to keep the histories small.
FAST == 1
SLOW == 2
\* the MeanReversion history is as long as the Momentum one
WINDOW == SLOW
Z_THRESHOLD == <<6, 5>>
MomentumCap == IF FAST > SLOW THEN FAST ELSE SLOW

\* EPICENTER_TRADES_PER_SYMBOL, engine.py:143
TARGET_PER_SYMBOL == 2
\* EPICENTER_POSITION_PCT, engine.py:139 (default 0.2)
pos_pct == <<1, 5>>
\* values of EPICENTER_COOLDOWN_SEC
Cooldowns == {3}
\* engine.py:177 and engine.py:183,189,195
HOLD_REPOLL_SEC == 2
RETRY_SEC == 5

MaxTime == 3
\* prices a ticker message can carry
TickPrices == {RInt(1), RInt(2)}

\* engine.py:134
InitialBalances == [a \in Asset |->
    IF a = "BTC" THEN <<1, 1000>> ELSE IF a = "USDT" THEN RInt(100) ELSE Zero]

\* get_exchange_rules: the loop over the filters of the symbol's entry
RECURSIVE FoldFilters(_, _)
FoldFilters(fs, r) ==
    IF fs = <<>> THEN r
    ELSE LET f  == Head(fs)
             r1 == IF f.filterType = "LOT_SIZE"
                   THEN [r EXCEPT !.minQty = f.minQty, !.stepSize = f.stepSize]
                   ELSE r
             r2 == IF f.filterType \in {"MIN_NOTIONAL", "NOTIONAL"}
                   THEN [r1 EXCEPT !.minNotional = f.minNotional]
                   ELSE r1
         IN  FoldFilters(Tail(fs), r2)

\* base/quote None of the fail-open rule (assets are strings in the model)
NoAsset == "None"
FailOpenRule == [base |-> NoAsset, quote |-> NoAsset,
                 minQty |-> Zero, stepSize |-> Zero, minNotional |-> Zero]

\* a lookup that answers a failed fetch with a rule nothing passes
get_exchange_rules_closed(resp) ==
    IF ~resp.ok THEN [FailOpenRule EXCEPT !.minQty = RInt(1)]
    ELSE FoldFilters(resp.filters,
                     [base |-> resp.baseAsset, quote |-> resp.quoteAsset,
                      minQty |-> Zero, stepSize |-> Zero, minNotional |-> Zero])

\* resp: what GET /v3/exchangeInfo gave: ok = FALSE (exception, or no entry for
\* the symbol) or the symbol's entry
get_exchange_rules(resp) ==
    IF ~resp.ok THEN FailOpenRule
    ELSE FoldFilters(resp.filters,
                     [base |-> resp.baseAsset, quote |-> resp.quoteAsset,
                      minQty |-> Zero, stepSize |-> Zero, minNotional |-> Zero])

LotSize(mq, st) == [filterType |-> "LOT_SIZE", minQty |-> mq, stepSize |-> st]
Notional(mn) == [filterType |-> "NOTIONAL", minNotional |-> mn]

\* exchangeInfo answers the model draws from at start-up
ExchangeInfo(s) ==
    IF s = "BTCUSDT"
    THEN {[ok |-> TRUE, baseAsset |-> "BTC", quoteAsset |-> "USDT",
           filters |-> <<LotSize(RInt(1), RInt(2)), Notional(RInt(3))>>]}
    ELSE {[ok |-> FALSE],
          [ok |-> TRUE, baseAsset |-> "ETH", quoteAsset |-> "BTC",
           filters |-> <<LotSize(RInt(1), RInt(1))>>]}

(***************************************************************************)
(* engine.py:67-77, the Lighthouse gate                                    *)
(***************************************************************************)
\* float() of the texts the environment variables take in the model
ParseFloat(text) ==
    CASE text = "0.0" -> Zero
      [] text = "0"   -> Zero
      [] text = "0.5" -> <<1, 2>>
      [] text = "1.0" -> RInt(1)

Absent == <<>>
\* m.get(k, 0.0)
MetricOr0(v) == IF v = Absent THEN Zero ELSE v

\* ok = FALSE: open() or json.load raises; else the "metrics" object
Unreadable == [ok |-> FALSE, L |-> Absent, G_eff |-> Absent, Q |-> Absent]
MetricsFiles ==
    {Unreadable,
     [ok |-> TRUE, L |-> Absent, G_eff |-> Absent, Q |-> Absent],
     [ok |-> TRUE, L |-> <<1, 2>>, G_eff |-> <<3, 2>>, Q |-> <<1, 2>>]}

\* the environment of the engine run: the defaults
GateEnv == [L_MIN |-> "0.0", G_MAX |-> "1.0", Q_MAX |-> "1.0"]

\* the gate failing open whatever the threshold
load_lighthouse_gate_open(file, ge) ==
    IF ~file.ok THEN TRUE
    ELSE /\ RLe(ParseFloat(ge.L_MIN), MetricOr0(file.L))
         /\ RLe(MetricOr0(file.G_eff), ParseFloat(ge.G_MAX))
         /\ RLe(MetricOr0(file.Q), ParseFloat(ge.Q_MAX))

\* the gate with G < G_MAX for G <= G_MAX
load_lighthouse_gate_strict(file, ge) ==
    IF ~file.ok THEN ge.L_MIN = "0.0"
    ELSE /\ RLe(ParseFloat(ge.L_MIN), MetricOr0(file.L))
         /\ RLt(MetricOr0(file.G_eff), ParseFloat(ge.G_MAX))
         /\ RLe(MetricOr0(file.Q), ParseFloat(ge.Q_MAX))

\* ge: the three LIGHTHOUSE_* variables as os.getenv(name, default) gives them
load_lighthouse_gate(file, ge) ==
    IF ~file.ok THEN ge.L_MIN = "0.0"
    ELSE /\ RLe(ParseFloat(ge.L_MIN), MetricOr0(file.L))
         /\ RLe(MetricOr0(file.G_eff), ParseFloat(ge.G_MAX))
         /\ RLe(MetricOr0(file.Q), ParseFloat(ge.Q_MAX))

\* autopilot.py:154-175, th: the thresholds the constructor stored
Autopilot_should_trade_by_lighthouse(file, th) ==
    IF ~file.ok THEN th.L_MIN = Zero
    ELSE IF RLt(MetricOr0(file.L), th.L_MIN) THEN FALSE
    ELSE IF RLt(th.G_EFF_MAX, MetricOr0(file.G_eff)) THEN FALSE
    ELSE IF RLt(th.Q_MAX, MetricOr0(file.Q)) THEN FALSE
    ELSE TRUE

(***************************************************************************)
(* The process environment (os.getenv)                                     *)
(***************************************************************************)
\* a variable that is not set: os.getenv(name) is None
Unset == "<unset>"
\* os.getenv(name, default)
Getenv(value, default) == IF value = Unset THEN default ELSE value

\* EPICENTER_LIVE read as live whatever its case
DRY_RUN_AnyCase(e) == Getenv(e.EPICENTER_LIVE, "NO") \notin {"YES", "yes"}

\* router.py:12, engine.py:34
DRY_RUN(e) == Getenv(e.EPICENTER_LIVE, "NO") # "YES"

\* the environment of the engine runs of Spec: confirmed, live, with
\* credentials and an explicit symbol list
EngineEnv == [CONFIRM_EPICENTER |-> "YES", EPICENTER_SYMBOLS |-> "BTCUSDT,ETHBTC",
              EPICENTER_LIVE |-> "YES", BINANCE_API_SECRET |-> "secret",
              universe |-> <<>>]

(***************************************************************************)
(* router.py                                                               *)
(***************************************************************************)
\* http_ok: the signed POST /v3/order succeeds (else requests.post or
\* raise_for_status raises).  signed: _sign computed a signature; posted:
\* requests.post was called.  Without BINANCE_API_SECRET, API_SECRET is None
\* and API_SECRET.encode raises in _sign, before the POST.
place_market(symbol, sd, quantity, http_ok) ==
    IF dry
    THEN [raised |-> FALSE, signed |-> FALSE, posted |-> FALSE, orderId |-> 0]
    ELSE IF env.BINANCE_API_SECRET = Unset
    THEN [raised |-> TRUE, signed |-> FALSE, posted |-> FALSE, orderId |-> 0]
    ELSE [raised |-> ~http_ok, signed |-> TRUE, posted |-> TRUE,
          orderId |-> IF http_ok THEN 1 ELSE 0]

(***************************************************************************)
(* engine.py: the websocket callback (thread t, engine.py:109-131)         *)
(***************************************************************************)
on_price(st, px) ==
    [mom |-> Append_maxlen(st.mom, px, MomentumCap),
     mr  |-> Append_maxlen(st.mr, px, WINDOW)]

on_msg(s, px) ==
    /\ ws_started
    /\ pc # "exit"
    /\ prices' = [prices EXCEPT ![s] = px]
    /\ strats' = [strats EXCEPT ![s] = on_price(strats[s], px)]
    /\ UNCHANGED <<rules, dry, cooldown, bal, next_t, trades, done, now, gate,
                   pc, idx, all_done, placed, votes, side, enf_in, enf_out,
                   restVars>>

(***************************************************************************)
(* engine.py: the engine loop (engine.py:148-223)                          *)
(***************************************************************************)
\* the gate's answer ignored
AfterGateOpen(g) == "iter"

\* engine.py:156-157
AfterGate(g) == IF g THEN "iter" ELSE "wait"

\* engine.py:149-159: one wake, the clock read and the gate.  qmsg.get returns
\* with a token or after its 0.5 s timeout, so a wake never waits for a tick;
\* the queue only paces the loop and its length is not part of the state.
Wake ==
    /\ pc = "wait"
    /\ \E t \in now..MaxTime, file \in MetricsFiles :
          /\ now' = t
          /\ gate' = load_lighthouse_gate(file, GateEnv)
          /\ pc' = AfterGate(gate')
    /\ IF pc' = "iter"
       THEN idx' = 1 /\ all_done' = TRUE
       ELSE UNCHANGED <<idx, all_done>>
    /\ UNCHANGED <<rules, dry, cooldown, prices, strats, bal, next_t, trades,
                   done, placed, votes, side, enf_in, enf_out, restVars>>

InLoop == pc = "iter" /\ idx <= Len(symbols)
cur == symbols[idx]

\* engine.py:170-175
signals(s) == <<Momentum_signal(strats[s].mom, FAST, SLOW),
                MeanReversion_signal(strats[s].mr, Z_THRESHOLD)>>
decided(s) == Blend(signals(s))

\* the evaluation of s with the quota test left out
DueNoQuota(s) ==
    /\ now >= next_t[s]
    /\ RLt(Zero, prices[s])

\* the evaluation of s with the deadline test left out
DueAnyTime(s) ==
    /\ done[s] < TARGET_PER_SYMBOL
    /\ RLt(Zero, prices[s])

\* engine.py:161-168: s is evaluated in this cycle
Due(s) ==
    /\ done[s] < TARGET_PER_SYMBOL
    /\ now >= next_t[s]
    /\ RLt(Zero, prices[s])

HasAssets(s) == rules[s].base # NoAsset /\ rules[s].quote # NoAsset
\* engine.py:186-193
spend_asset(s) == IF decided(s) = "BUY" THEN rules[s].quote ELSE rules[s].base
avail(s) == bal[spend_asset(s)]
desired(s) ==
    LET spend_amt == RMul(avail(s), pos_pct)
    IN  IF decided(s) = "BUY" THEN RDiv(spend_amt, prices[s]) ELSE spend_amt
sized(s) == enforce_rules(desired(s), prices[s], rules[s].minQty,
                          rules[s].stepSize, rules[s].minNotional)
\* the guards before place_market, engine.py:161-196
Routable(s) ==
    /\ Due(s)
    /\ decided(s) # "HOLD"
    /\ HasAssets(s)
    /\ RLt(Zero, avail(s))
    /\ sized(s) # None /\ sized(s) # Zero

\* the body of the for loop writing the deadline d to every symbol
StepAll(s, d, ad) ==
    /\ next_t' = [o \in Symbol |-> d]
    /\ all_done' = ad
    /\ idx' = idx + 1
    /\ UNCHANGED <<rules, dry, cooldown, prices, strats, now, gate, pc,
                   votes, side, enf_in, enf_out, restVars>>

\* the body of the for loop leaves symbol s with deadline d
Step(s, d, ad) ==
    /\ next_t' = [next_t EXCEPT ![s] = d]
    /\ all_done' = ad
    /\ idx' = idx + 1
    /\ UNCHANGED <<rules, dry, cooldown, prices, strats, now, gate, pc,
                   votes, side, enf_in, enf_out, restVars>>

\* engine.py:161-162
SkipDone ==
    /\ InLoop
    /\ done[cur] >= TARGET_PER_SYMBOL
    /\ Step(cur, next_t[cur], all_done)
    /\ UNCHANGED <<bal, trades, done, placed>>

\* engine.py:164-168
SkipNotDue ==
    /\ InLoop
    /\ done[cur] < TARGET_PER_SYMBOL
    /\ now < next_t[cur] \/ RLe(prices[cur], Zero)
    /\ Step(cur, next_t[cur], FALSE)
    /\ UNCHANGED <<bal, trades, done, placed>>

\* a HOLD that waits the full cooldown
HoldCooldown ==
    /\ InLoop
    /\ Due(cur)
    /\ decided(cur) = "HOLD"
    /\ Step(cur, now + cooldown, FALSE)
    /\ UNCHANGED <<bal, trades, done, placed>>

\* engine.py:176-178
Hold ==
    /\ InLoop
    /\ Due(cur)
    /\ decided(cur) = "HOLD"
    /\ Step(cur, now + HOLD_REPOLL_SEC, FALSE)
    /\ UNCHANGED <<bal, trades, done, placed>>

\* a non-viable order that counts as a trade
NotViableCounted ==
    /\ InLoop
    /\ Due(cur)
    /\ decided(cur) # "HOLD"
    /\ ~Routable(cur)
    /\ Step(cur, now + RETRY_SEC, FALSE)
    /\ trades' = trades + 1
    /\ UNCHANGED <<bal, done, placed>>

\* a non-viable order that counts towards the quota of its symbol
NotViableDone ==
    /\ InLoop
    /\ Due(cur)
    /\ decided(cur) # "HOLD"
    /\ ~Routable(cur)
    /\ Step(cur, now + RETRY_SEC, FALSE)
    /\ done' = [done EXCEPT ![cur] = done[cur] + 1]
    /\ UNCHANGED <<bal, trades, placed>>

\* engine.py:180-196
NotViable ==
    /\ InLoop
    /\ Due(cur)
    /\ decided(cur) # "HOLD"
    /\ ~Routable(cur)
    /\ Step(cur, now + RETRY_SEC, FALSE)
    /\ UNCHANGED <<bal, trades, done, placed>>

\* the ledger update with the price left out of the cost of a BUY
LedgerAfterQty(b, sd, base, quote, qty, px) ==
    IF sd = "BUY"
    THEN LET b1 == [b EXCEPT ![quote] = RSub(b[quote], qty)]
         IN  [b1 EXCEPT ![base] = RAdd(b1[base], qty)]
    ELSE LET b1 == [b EXCEPT ![base] = RSub(b[base], qty)]
         IN  [b1 EXCEPT ![quote] = RAdd(b1[quote], RMul(qty, px))]

\* a ledger update that books the quantity on every asset but the one paid
LedgerAfterAll(b, sd, base, quote, qty, px) ==
    IF sd = "BUY"
    THEN [a \in DOMAIN b |-> IF a = quote THEN RSub(b[a], RMul(qty, px))
                              ELSE RAdd(b[a], qty)]
    ELSE [a \in DOMAIN b |-> IF a = base THEN RSub(b[a], qty)
                              ELSE RAdd(b[a], RMul(qty, px))]

\* engine.py:204-210

LedgerAfter(b, sd, base, quote, qty, px) ==
    IF sd = "BUY"
    THEN LET b1 == [b EXCEPT ![quote] = RSub(b[quote], RMul(qty, px))]
         IN  [b1 EXCEPT ![base] = RAdd(b1[base], qty)]
    ELSE LET b1 == [b EXCEPT ![base] = RSub(b[base], qty)]
         IN  [b1 EXCEPT ![quote] = RAdd(b1[quote], RMul(qty, px))]

\* the deadline of a routed order set like the re-poll deadline of a HOLD
DeadlineShort(t) == t + HOLD_REPOLL_SEC

\* engine.py:215
Deadline(t) == t + cooldown

\* engine.py:200-211, 215: place_market returned
RouteOk ==
    /\ InLoop
    /\ Routable(cur)
    /\ \E http_ok \in BOOLEAN :
          ~place_market(cur, decided(cur), sized(cur), http_ok).raised
    /\ trades' = trades + 1
    /\ done' = [done EXCEPT ![cur] = done[cur] + 1]
    /\ bal' = LedgerAfter(bal, decided(cur), rules[cur].base, rules[cur].quote,
                          sized(cur), prices[cur])
    /\ placed' = [placed EXCEPT ![cur] =
                    [n |-> placed[cur].n + 1, t |-> now, side |-> decided(cur),
                     qty |-> sized(cur), px |-> prices[cur]]]
    /\ Step(cur, Deadline(now), FALSE)

\* the counters of a failed order, as a bug would leave them
FailCountersEarly(s) ==
    /\ trades' = trades + 1
    /\ done' = [done EXCEPT ![s] = done[s] + 1]
    /\ UNCHANGED bal

\* engine.py:200-201: place_market raises before any counter changes
FailCounters(s) == UNCHANGED <<trades, done, bal>>

\* engine.py:200, 212-215: place_market raised
RouteFail ==
    /\ InLoop
    /\ Routable(cur)
    /\ \E http_ok \in BOOLEAN :
          place_market(cur, decided(cur), sized(cur), http_ok).raised
    /\ FailCounters(cur)
    /\ UNCHANGED placed
    /\ Step(cur, Deadline(now), FALSE)

\* engine.py:217-223
EndCycle ==
    /\ pc = "iter"
    /\ idx > Len(symbols)
    /\ pc' = IF all_done THEN "exit" ELSE "wait"
    /\ UNCHANGED <<rules, dry, cooldown, prices, strats, bal, next_t,
                   trades, done, now, gate, idx, all_done, placed,
                   votes, side, enf_in, enf_out, restVars>>

Tick == \E s \in Symbol, px \in TickPrices : on_msg(s, px)

NoOrder == [n |-> 0, t |-> 0, side |-> "HOLD", qty |-> Zero, px |-> Zero]

\* the pure-function specifications' variables, at rest
BlendIdle == votes = <<>> /\ side = "HOLD"
EnforceIdle ==
    /\ enf_in = [qty |-> Zero, price |-> RInt(1), min_qty |-> Zero,
                 step |-> Zero, min_notional |-> Zero]
    /\ enf_out = [called |-> FALSE, q |-> None]
NoResult == [raised |-> FALSE, signed |-> FALSE, posted |-> FALSE, orderId |-> 0]
RouterIdle ==
    /\ rt_in = [symbol |-> symbols[1], side |-> "BUY", quantity |-> RInt(1),
                http_ok |-> TRUE]
    /\ rt_out = [called |-> FALSE, res |-> NoResult]
StrategyIdle == fed = <<>> /\ sbuf = [mom |-> <<>>, mr |-> <<>>] /\ sigs = <<>>
GateIdle ==
    /\ g_in = [file |-> Unreadable,
               env |-> [LIGHTHOUSE_L_MIN |-> Unset, LIGHTHOUSE_G_MAX |-> Unset,
                        LIGHTHOUSE_Q_MAX |-> Unset]]
    /\ g_out = [called |-> FALSE, permit |-> FALSE,
                ap_called |-> FALSE, ap_permit |-> FALSE]
\* a dict with no key
EmptyDict == [k \in {} |-> Zero]
NoLookup == [called |-> FALSE, who |-> "engine", symbol |-> symbols[1],
             fetched |-> FALSE, ok |-> FALSE, rule |-> FailOpenRule]
RulesIdle ==
    /\ boot_list = symbols /\ boot_i = Len(symbols) + 1
    /\ built = EmptyDict /\ cache = EmptyDict
    /\ reqs = [w \in {"engine", "autopilot"} |-> [s \in Symbol |-> 0]]
    /\ looked = NoLookup
UniverseIdle ==
    /\ u_in = [ok |-> FALSE, listing |-> <<>>, quote_whitelist |-> {},
               min_volume_usdt |-> 0, limit |-> 0]
    /\ u_out = [called |-> FALSE, symbols |-> <<>>]
MeanRevIdle ==
    /\ mr_in = [window |-> 5, z |-> RInt(1), prices |-> <<>>]
    /\ mr_out = [called |-> FALSE, vote |-> "HOLD"]
NoneF == [none |-> TRUE, v |-> F0]
NoCall64 == [fn |-> "none", fast |-> 1, slow |-> 1, p |-> Zero, n |-> 0,
             qty |-> Zero, price |-> Zero, min_qty |-> Zero, step |-> Zero,
             min_notional |-> Zero]
FloatIdle ==
    /\ fl_in = NoCall64
    /\ fl_out = [called |-> FALSE, vote |-> "HOLD", q |-> NoneF]
\* no signal() call in progress
NoSignal == [pc |-> "idle", strat |-> "mom", seen |-> {}, mutated |-> FALSE,
             seed |-> Zero, f |-> Zero, total |-> Zero, mean |-> Zero, var |-> Zero,
             vote |-> "HOLD"]
RaceIdle == race = NoSignal
\* no evaluation in progress
NoEval == [pc |-> "idle", s |-> symbols[1], px |-> Zero, side |-> "HOLD",
           want |-> Zero, qty |-> Zero, size_px |-> Zero, enf_px |-> Zero,
           led_px |-> Zero, bal0 |-> InitialBalances, ticks |-> 0]
EvalIdle == ev = NoEval
\* multi_sim_ws.py:84-89: SimAccount.__init__ (an asset the dict lacks reads
\* as 0 through bal.get), and no call made yet
SimAsset == {"BTC", "BNB", "ETH"}
SimInitialBalances == [a \in SimAsset |->
    IF a = "BTC" THEN <<1, 1000>> ELSE IF a = "BNB" THEN <<1, 20>> ELSE <<1, 500>>]
NewSimAccount == [bal |-> SimInitialBalances, trades |-> 0, wins |-> 0, losses |-> 0]
NoSimCall == [n |-> 0, ret |-> FALSE, side |-> "HOLD", base |-> NoAsset,
              quote |-> NoAsset, qty |-> None, price |-> Zero,
              before |-> NewSimAccount]
SimIdle == sim = [acc |-> NewSimAccount, call |-> NoSimCall]
\* no enforcer called; shift: the price is price * 2^-shift
NoThree == [qty |-> Zero, price |-> RInt(1), shift |-> 0, min_qty |-> Zero,
            step |-> Zero, min_notional |-> Zero]
NotCalled == [called |-> FALSE, q |-> NoneF]
ThreeIdle == tri = [in |-> NoThree, risk |-> NotCalled, sim |-> NotCalled,
                    reality |-> NotCalled]
ThreadIdle == RaceIdle /\ EvalIdle /\ SimIdle /\ ThreeIdle
PureIdle == RulesIdle /\ UniverseIdle /\ MeanRevIdle /\ FloatIdle /\ ThreadIdle

\* the engine constructed and its websocket thread started
Booted == env = EngineEnv /\ discovered = FALSE /\ ws_started = TRUE

\* engine.py:80-146: the state when the loop is entered.  The loop is explored
\* in live mode: a dry run is the same loop with place_market never raising.
EngineInit ==
    /\ \E resp \in [Symbol -> UNION {ExchangeInfo(s) : s \in Symbol}] :
          /\ \A s \in Symbol : resp[s] \in ExchangeInfo(s)
          /\ rules = [s \in Symbol |-> get_exchange_rules(resp[s])]
    /\ Booted
    /\ dry = DRY_RUN(env)
    /\ cooldown \in Cooldowns
    /\ prices = [s \in Symbol |-> Zero]
    /\ strats = [s \in Symbol |-> [mom |-> <<>>, mr |-> <<>>]]
    /\ bal = InitialBalances
    /\ next_t = [s \in Symbol |-> 0]
    /\ trades = 0
    /\ done = [s \in Symbol |-> 0]
    /\ now = 0
    /\ gate = FALSE
    /\ pc = "wait"
    /\ idx = Len(symbols) + 1
    /\ all_done = FALSE
    /\ placed = [s \in Symbol |-> NoOrder]

Init == EngineInit /\ BlendIdle /\ EnforceIdle /\ RouterIdle /\ StrategyIdle /\ GateIdle /\ PureIdle

Next ==
    \/ Tick
    \/ Wake
    \/ SkipDone
    \/ SkipNotDue
    \/ Hold
    \/ NotViable
    \/ RouteOk
    \/ RouteFail
    \/ EndCycle

Spec == Init /\ [][Next]_vars

(***************************************************************************)
(* SpecBlend: the vote blend of engine.py:170-175 applied to every vote    *)
(* list of at most MaxVotes votes                                          *)
(***************************************************************************)
MaxVotes == 4
VoteLists == UNION {[1..n -> Vote] : n \in 0..MaxVotes}

\* the engine at rest while a pure function is exercised
EngineRest ==
    /\ rules = [s \in Symbol |-> FailOpenRule]
    /\ cooldown = CHOOSE c \in Cooldowns : TRUE
    /\ prices = [s \in Symbol |-> Zero]
    /\ strats = [s \in Symbol |-> [mom |-> <<>>, mr |-> <<>>]]
    /\ bal = InitialBalances
    /\ next_t = [s \in Symbol |-> 0]
    /\ trades = 0
    /\ done = [s \in Symbol |-> 0]
    /\ now = 0
    /\ gate = FALSE
    /\ pc = "wait"
    /\ idx = Len(symbols) + 1
    /\ all_done = FALSE
    /\ placed = [s \in Symbol |-> NoOrder]

\* main() not run: nothing discovered, no thread started
NotBooted == discovered = FALSE /\ ws_started = FALSE
ConfigRest == env = EngineEnv /\ dry = DRY_RUN(env) /\ NotBooted

\* engine.py:170-175: one evaluation, on the votes vs of the strategies
Evaluate ==
    /\ \E vs \in VoteLists :
          /\ votes' = vs
          /\ side' = Blend(vs)
    /\ UNCHANGED <<engineVars, enfVars, restVars>>

InitBlend ==
    EngineRest /\ ConfigRest /\ BlendIdle /\ EnforceIdle /\ RouterIdle /\ StrategyIdle /\ GateIdle /\ PureIdle
SpecBlend == InitBlend /\ [][Evaluate]_vars

(***************************************************************************)
(* SpecEnforce: enforce_rules of risk.py applied to every argument tuple   *)
(* over the halves 0, 1/2, ..., MaxHalves/2                                *)
(***************************************************************************)
MaxHalves == 4
Halves == {Rat(n, 2) : n \in 0..MaxHalves}

EnforceCall ==
    /\ ~enf_out.called
    /\ enf_out' = [called |-> TRUE,
                   q |-> enforce_rules(enf_in.qty, enf_in.price, enf_in.min_qty,
                                       enf_in.step, enf_in.min_notional)]
    /\ UNCHANGED <<engineVars, blendVars, enf_in, restVars>>

InitEnforce ==
    /\ EngineRest
    /\ ConfigRest
    /\ BlendIdle
    /\ enf_in \in [qty : Halves, price : Halves \ {Zero}, min_qty : Halves,
                   step : Halves, min_notional : Halves]
    /\ enf_out = [called |-> FALSE, q |-> None]
    /\ RouterIdle /\ StrategyIdle /\ GateIdle /\ PureIdle
SpecEnforce == InitEnforce /\ [][EnforceCall]_vars

(***************************************************************************)
(* SpecStart: main() of engine.py from its first line, under environments  *)
(* that lack the confirmation, the symbols or the credentials.  The run    *)
(* with everything present, in live mode, is Spec.                         *)
(***************************************************************************)
\* engine.py:88: EPICENTER_SYMBOLS split at commas, stripped, upper-cased,
\* empty items dropped
ParseSymbols(text) ==
    CASE text = "BTCUSDT,ETHBTC" -> symbols
      [] text = " , "            -> <<>>

\* engine.py:87: "if env_syms" is false for None and for the empty string
Discovers(e) == e.EPICENTER_SYMBOLS \in {Unset, ""}

\* engine.py:86-91; universe is what fetch_spot_universe returns when called
SymbolsAtStart(e) ==
    IF Discovers(e) THEN e.universe ELSE ParseSymbols(e.EPICENTER_SYMBOLS)

\* the confirmation not asked for
ConfirmedAlways(e) == TRUE

\* engine.py:81
Confirmed(e) == e.CONFIRM_EPICENTER = "YES"

NoCreds == [EngineEnv EXCEPT !.BINANCE_API_SECRET = Unset]
StartEnvs ==
    {\* live, no credentials, explicit symbols
     NoCreds,
     \* dry run, no credentials, discovered symbols
     [NoCreds EXCEPT !.EPICENTER_LIVE = Unset, !.EPICENTER_SYMBOLS = Unset,
                     !.universe = symbols],
     \* nothing discovered
     [EngineEnv EXCEPT !.EPICENTER_SYMBOLS = Unset],
     [EngineEnv EXCEPT !.EPICENTER_SYMBOLS = "", !.EPICENTER_LIVE = "NO"],
     \* a symbol list without any symbol
     [EngineEnv EXCEPT !.EPICENTER_SYMBOLS = " , "],
     \* not confirmed
     [EngineEnv EXCEPT !.CONFIRM_EPICENTER = Unset],
     [EngineEnv EXCEPT !.CONFIRM_EPICENTER = "yes", !.EPICENTER_SYMBOLS = Unset,
                       !.universe = symbols],
     [NoCreds EXCEPT !.CONFIRM_EPICENTER = "NO", !.EPICENTER_LIVE = "NO"]}

\* engine.py:80-146: main() up to the loop.  What the construction assigns
\* besides rules (prices, strats, bal, next_t, trades, done) has the values
\* the model gives these variables before main() runs.
Start ==
    /\ pc = "start"
    /\ IF ~Confirmed(env)
       THEN /\ pc' = "exit"
            /\ UNCHANGED <<rules, discovered, ws_started>>
       ELSE /\ discovered' = Discovers(env)
            /\ IF SymbolsAtStart(env) = <<>>
               THEN /\ pc' = "exit"
                    /\ UNCHANGED <<rules, ws_started>>
               ELSE /\ \E resp \in [Symbol -> UNION {ExchangeInfo(s) : s \in Symbol}] :
                          /\ \A s \in Symbol : resp[s] \in ExchangeInfo(s)
                          /\ rules' = [s \in Symbol |-> get_exchange_rules(resp[s])]
                    /\ ws_started' = TRUE
                    /\ pc' = "wait"
    /\ UNCHANGED <<dry, cooldown, prices, strats, bal, next_t, trades, done, now,
                   gate, idx, all_done, placed, blendVars, enfVars, pureVars, env,
                   routerVars, stratVars, gateVars>>

InitStart ==
    /\ env \in StartEnvs
    /\ dry = DRY_RUN(env)
    /\ NotBooted
    /\ cooldown \in Cooldowns
    /\ pc = "start"
    /\ rules = [s \in Symbol |-> FailOpenRule]
    /\ prices = [s \in Symbol |-> Zero]
    /\ strats = [s \in Symbol |-> [mom |-> <<>>, mr |-> <<>>]]
    /\ bal = InitialBalances
    /\ next_t = [s \in Symbol |-> 0]
    /\ trades = 0
    /\ done = [s \in Symbol |-> 0]
    /\ now = 0
    /\ gate = FALSE
    /\ idx = Len(symbols) + 1
    /\ all_done = FALSE
    /\ placed = [s \in Symbol |-> NoOrder]
    /\ BlendIdle /\ EnforceIdle /\ RouterIdle /\ StrategyIdle /\ GateIdle /\ PureIdle

NextStart == Start \/ Next
SpecStart == InitStart /\ [][NextStart]_vars

(***************************************************************************)
(* SpecStrategy: a Momentum(FAST, SLOW) and a MeanReversion(MR_WINDOW, z)  *)
(* fed the same prices, at most MaxFeed of them, with signal() called      *)
(* between the prices                                                      *)
(***************************************************************************)
\* window of the MeanReversion under test (engine.py:99 uses 30)
MR_WINDOW == 5
MaxFeed == 7

\* strategy_api.py:19-20
MeanReversion_on_price(buf, p, window) == Append_maxlen(buf, p, window)
\* strategy_api.py:40, 42-43
Momentum_on_price(buf, p, fast, slow) ==
    Append_maxlen(buf, p, IF fast > slow THEN fast ELSE slow)

\* a signal() that consumes the oldest price it read
AfterSignalDrain(buf) == IF buf = <<>> THEN buf ELSE Tail(buf)

\* strategy_api.py:22-33, 45-63: buf after signal(), which assigns nothing
AfterSignal(buf) == buf

Feed ==
    /\ Len(fed) < MaxFeed
    /\ \E p \in TickPrices :
          /\ fed' = Append(fed, p)
          /\ sbuf' = [mom |-> Momentum_on_price(sbuf.mom, p, FAST, SLOW),
                      mr  |-> MeanReversion_on_price(sbuf.mr, p, MR_WINDOW)]
    /\ sigs' = <<>>
    /\ UNCHANGED <<engineVars, blendVars, enfVars, pureVars, bootVars, routerVars, gateVars>>

\* one signal() call on each strategy
Signal ==
    /\ Len(sigs) < 2
    /\ sigs' = Append(sigs, [mom |-> Momentum_signal(sbuf.mom, FAST, SLOW),
                             mr  |-> MeanReversion_signal(sbuf.mr, Z_THRESHOLD)])
    /\ sbuf' = [mom |-> AfterSignal(sbuf.mom), mr |-> AfterSignal(sbuf.mr)]
    /\ UNCHANGED <<engineVars, blendVars, enfVars, pureVars, bootVars, routerVars, gateVars,
                   fed>>

InitStrategy ==
    EngineRest /\ ConfigRest /\ BlendIdle /\ EnforceIdle /\ RouterIdle
        /\ StrategyIdle /\ GateIdle /\ PureIdle
NextStrategy == Feed \/ Signal
SpecStrategy == InitStrategy /\ [][NextStrategy]_vars

(***************************************************************************)
(* SpecGate: load_lighthouse_gate of engine.py called once on every        *)
(* metrics file and every setting of the three LIGHTHOUSE_* variables      *)
(***************************************************************************)
GateFiles ==
    MetricsFiles \cup {[ok |-> TRUE, L |-> RInt(1), G_eff |-> <<1, 2>>, Q |-> Zero]}
\* the variables as set in the process environment
GateSettings ==
    [LIGHTHOUSE_L_MIN : {Unset, "0.0", "0", "0.5", "1.0"},
     LIGHTHOUSE_G_MAX : {Unset, "0.5"},
     LIGHTHOUSE_Q_MAX : {Unset, "0.5"}]
\* engine.py:71-73, 77: os.getenv with the defaults
GateEnvOf(raw) ==
    [L_MIN |-> Getenv(raw.LIGHTHOUSE_L_MIN, "0.0"),
     G_MAX |-> Getenv(raw.LIGHTHOUSE_G_MAX, "1.0"),
     Q_MAX |-> Getenv(raw.LIGHTHOUSE_Q_MAX, "1.0")]

\* autopilot.py:52-54: the thresholds as numbers, read once
Autopilot_thresholds(raw) ==
    [L_MIN     |-> ParseFloat(Getenv(raw.LIGHTHOUSE_L_MIN, "0.0")),
     G_EFF_MAX |-> ParseFloat(Getenv(raw.LIGHTHOUSE_G_MAX, "1.0")),
     Q_MAX     |-> ParseFloat(Getenv(raw.LIGHTHOUSE_Q_MAX, "1.0"))]

GateCall ==
    /\ ~g_out.called
    /\ g_out' = [g_out EXCEPT
                    !.called = TRUE,
                    !.permit = load_lighthouse_gate(g_in.file, GateEnvOf(g_in.env))]
    /\ UNCHANGED <<engineVars, blendVars, enfVars, pureVars, bootVars, routerVars, stratVars,
                   g_in>>

\* autopilot.py:154-175 called once, by an autopilot constructed under the
\* same environment and reading the same metrics file
AutopilotGateCall ==
    /\ ~g_out.ap_called
    /\ g_out' = [g_out EXCEPT
                    !.ap_called = TRUE,
                    !.ap_permit = Autopilot_should_trade_by_lighthouse(
                                      g_in.file, Autopilot_thresholds(g_in.env))]
    /\ UNCHANGED <<engineVars, blendVars, enfVars, pureVars, bootVars, routerVars, stratVars,
                   g_in>>

InitGate ==
    /\ EngineRest /\ ConfigRest
    /\ BlendIdle /\ EnforceIdle /\ RouterIdle /\ StrategyIdle /\ PureIdle
    /\ g_in \in [file : GateFiles, env : GateSettings]
    /\ g_out = [called |-> FALSE, permit |-> FALSE,
                ap_called |-> FALSE, ap_permit |-> FALSE]
NextGate == GateCall \/ AutopilotGateCall
SpecGate == InitGate /\ [][NextGate]_vars

(***************************************************************************)
(* SpecRouter: place_market of router.py called once under every value of  *)
(* EPICENTER_LIVE and BINANCE_API_SECRET                                   *)
(***************************************************************************)
LiveTexts == {Unset, "NO", "YES", "yes"}
RouterEnvs ==
    {[EngineEnv EXCEPT !.EPICENTER_LIVE = l, !.BINANCE_API_SECRET = k] :
        l \in LiveTexts, k \in {Unset, "secret"}}

RouterCall ==
    /\ ~rt_out.called
    /\ rt_out' = [called |-> TRUE,
                  res |-> place_market(rt_in.symbol, rt_in.side, rt_in.quantity,
                                       rt_in.http_ok)]
    /\ UNCHANGED <<engineVars, blendVars, enfVars, pureVars, bootVars, rt_in, stratVars,
                   gateVars>>

InitRouter ==
    /\ EngineRest
    /\ env \in RouterEnvs
    /\ dry = DRY_RUN(env)
    /\ NotBooted
    /\ BlendIdle /\ EnforceIdle /\ StrategyIdle /\ GateIdle /\ PureIdle
    /\ rt_in \in [symbol : Symbol, side : {"BUY", "SELL"},
                   quantity : {RInt(1), <<1, 2>>}, http_ok : BOOLEAN]
    /\ rt_out = [called |-> FALSE, res |-> NoResult]
SpecRouter == InitRouter /\ [][RouterCall]_vars

(***************************************************************************)
(* Properties                                                              *)
(***************************************************************************)
AllDone == \A s \in Symbol : done[s] >= TARGET_PER_SYMBOL

\* C1: for every symbol, two consecutive routed orders (place_market
\* returned) happen at loop times that differ by at least the cooldown.
C1_Cooldown ==
    [][\A s \in Symbol :
          (placed'[s].n > placed[s].n /\ placed[s].n > 0)
              => placed'[s].t - placed[s].t >= cooldown]_vars

\* a second order has just been routed for a symbol
C1_Witness ==
    \E s \in Symbol : placed[s].n = 2 /\ placed[s].t = now /\ pc = "iter"

\* C2: in a wake cycle in which the gate denies, the loop does not enter the
\* per-symbol evaluation and no order is routed, whatever the strategies vote.
C2_GateDenied ==
    [][/\ ~gate' => pc' # "iter"
       /\ placed' # placed => gate]_vars

\* the last wake was denied although a symbol was due with a decided side
C2_Witness ==
    /\ pc = "wait" /\ now > 0 /\ ~gate
    /\ \E s \in Symbol : Routable(s)

\* C3: every balance of the ledger is >= 0 after any sequence of routed
\* orders.
C3_NonNegative == \A a \in Asset : RLe(Zero, bal[a])

\* q is an integer multiple of step
IsMultiple(q, step) ==
    LET k == RDiv(q, step) IN k[2] = 1

\* C4: enforce_rules returns None or a quantity q with q >= minQty, q an
\* integer multiple of stepSize (when stepSize > 0) and q*price >= minNotional.
C4_EnforcePost ==
    (enf_out.called /\ enf_out.q # None) =>
        /\ RLe(enf_in.min_qty, enf_out.q)
        /\ RLt(Zero, enf_in.step) => IsMultiple(enf_out.q, enf_in.step)
        /\ RLe(enf_in.min_notional, RMul(enf_out.q, enf_in.price))

\* C5: a step of the websocket thread changes no strategy history: its only
\* write to the state shared with the engine loop is prices[s].
C5_TransportOnlyPrices ==
    [][Tick => UNCHANGED <<strats, bal, next_t, trades, done, placed>>]_vars

\* C6: a wake that finds every symbol at its quota does not return to
\* waiting, whatever the gate returns: the loop goes on to exit.
C6_ExitsWhenAllDone ==
    [][(AllDone /\ Wake) => pc' # "wait"]_vars

\* C7: when place_market raises, the loop goes on and the symbol's deadline is
\* a short retry deadline, not the full cooldown deadline now + cooldown.
C7_FailShortRetry ==
    [][RouteFail => (pc' # "exit" /\ next_t'[cur] # now + cooldown)]_vars

\* C8: when place_market raises, done, trades and the ledger are unchanged;
\* they change only with an order that place_market returned: a step that
\* changes one of them is no failed order and has placed an order.
C8_FailLeavesCounters ==
    [][\/ UNCHANGED <<done, trades, bal>>
       \/ (placed' # placed /\ ~RouteFail)]_vars

\* in this cycle place_market raised for an earlier symbol of the loop: its
\* deadline is now + cooldown and no order was ever routed for it
C8_Witness ==
    /\ pc = "iter"
    /\ \E i \in 1..Len(symbols) :
          /\ i < idx
          /\ next_t[symbols[i]] = now + cooldown
          /\ placed[symbols[i]].n = 0
          /\ done[symbols[i]] = 0

NBuy == Cardinality({i \in 1..Len(votes) : votes[i] = "BUY"})
NSell == Cardinality({i \in 1..Len(votes) : votes[i] = "SELL"})

\* C9: the decision is BUY iff there are more BUY than SELL votes (and one
\* BUY at least), SELL iff more SELL than BUY, and no action (HOLD) otherwise,
\* all-HOLD and ties included; it is that of the votes of the evaluation.
C9_Blend ==
    /\ side = "BUY" <=> (NBuy > NSell /\ NBuy > 0)
    /\ side = "SELL" <=> (NSell > NBuy /\ NSell > 0)
    /\ side = "HOLD" <=> (NBuy = NSell)
    /\ votes = <<"BUY", "SELL", "HOLD">> => side = "HOLD"
    /\ votes = <<"BUY", "BUY", "SELL">> => side = "BUY"

\* the tie of the example has been evaluated
C9_Witness == votes = <<"BUY", "SELL", "HOLD">> /\ side = "HOLD"

\* C10: a routed order of qty at px changes the ledger by exactly: BUY: quote
\* - qty*px and base + qty; SELL: base - qty and quote + qty*px.
C10_LedgerDelta ==
    [][\A s \in Symbol :
          placed'[s].n > placed[s].n =>
              LET o == placed'[s]
                  b == rules[s].base
                  q == rules[s].quote
              IN  IF o.side = "BUY"
                  THEN /\ bal'[q] = RSub(bal[q], RMul(o.qty, o.px))
                       /\ bal'[b] = RAdd(bal[b], o.qty)
                  ELSE /\ o.side = "SELL"
                       /\ bal'[b] = RSub(bal[b], o.qty)
                       /\ bal'[q] = RAdd(bal[q], RMul(o.qty, o.px))]_vars

\* a BUY and a SELL have been routed
C10_Witness ==
    /\ \E s \in Symbol : placed[s].n > 0 /\ placed[s].side = "BUY"
    /\ \E s \in Symbol : placed[s].n > 0 /\ placed[s].side = "SELL"

\* C11: for every symbol the next-eligible time next_t[s] never decreases,
\* whatever the evaluations (skipped, HOLD, not viable, routed, failed); the
\* cooldown is >= 0 and the clock does not go back.
C11_DeadlineMonotone ==
    [][\A s \in Symbol : next_t'[s] >= next_t[s]]_vars

\* a symbol's deadline has been raised again after the cooldown of an order
C11_Witness ==
    \E s \in Symbol : placed[s].n > 0 /\ next_t[s] > placed[s].t + cooldown

\* C12: while the gate's last answer is a denial the loop is waiting and no
\* deadline, no done counter, not trades and not the ledger changes: the
\* denied cycle ends before the per-symbol work and the next wake retries.
C12_DeniedFrame ==
    [][~gate' => (pc' = "wait" /\ UNCHANGED <<next_t, done, trades, bal>>)]_vars

\* a wake was denied with orders routed before it and a deadline pending
C12_Witness ==
    /\ pc = "wait" /\ ~gate /\ trades > 0
    /\ \E s \in Symbol : next_t[s] > now /\ done[s] < TARGET_PER_SYMBOL

\* C17: a failed order for symbol s leaves next_t and done of every other
\* symbol unchanged, and the for loop goes on with the next symbol of the
\* same cycle.
C17_FailOthersUntouched ==
    [][\/ UNCHANGED <<next_t, done, idx, pc>>
       \/ ~InLoop
       \/ /\ \A o \in Symbol \ {cur} : next_t'[o] = next_t[o] /\ done'[o] = done[o]
          /\ pc' = "iter"
          /\ idx' = idx + 1
       \/ ~RouteFail]_vars

\* in one cycle the order of the first symbol failed and the second symbol
\* was evaluated after it
C17_Witness ==
    /\ pc = "iter" /\ idx = 3
    /\ next_t[symbols[1]] = now + cooldown
    /\ placed[symbols[1]].n = 0 /\ done[symbols[1]] = 0
    /\ next_t[symbols[2]] = now + HOLD_REPOLL_SEC

\* C13: when EPICENTER_LIVE is not YES, place_market signs nothing and posts
\* nothing: it returns (never raises) a result with orderId 0; a request is
\* posted only when EPICENTER_LIVE = YES.
C13_DryRunNoSigning ==
    rt_out.called =>
        /\ Getenv(env.EPICENTER_LIVE, "NO") # "YES" =>
              /\ ~rt_out.res.signed
              /\ ~rt_out.res.posted
              /\ ~rt_out.res.raised
              /\ rt_out.res.orderId = 0
        /\ rt_out.res.posted => env.EPICENTER_LIVE = "YES"

\* place_market was called with EPICENTER_LIVE = yes and with credentials
C13_Witness ==
    /\ rt_out.called
    /\ env.EPICENTER_LIVE = "yes" /\ env.BINANCE_API_SECRET # Unset
    /\ ~rt_out.res.signed /\ rt_out.res.orderId = 0

\* C14: with credentials missing or no symbol to trade, the run ends at
\* startup: the loop is never entered, the websocket thread is never started
\* and no order is routed.
C14_BadConfigFailsAtStartup ==
    (env.BINANCE_API_SECRET = Unset \/ SymbolsAtStart(env) = <<>>) =>
        /\ pc \in {"start", "exit"}
        /\ ~ws_started
        /\ \A s \in Symbol : placed[s].n = 0

\* C15: unless CONFIRM_EPICENTER = YES, main returns with no symbol
\* discovered, no websocket thread started and no order routed.
C15_NeedsConfirmation ==
    env.CONFIRM_EPICENTER # "YES" =>
        /\ pc \in {"start", "exit"}
        /\ ~discovered
        /\ ~ws_started
        /\ trades = 0 /\ \A s \in Symbol : placed[s].n = 0

\* main has returned for want of the confirmation, in an environment whose
\* discovery gives symbols
C15_Witness ==
    /\ pc = "exit"
    /\ env.CONFIRM_EPICENTER = "yes"
    /\ Discovers(env) /\ env.universe = symbols

\* the smallest integer multiple of step (step > 0) that is >= x (x >= 0)
CeilToStep(x, step) ==
    LET k == RDiv(x, step)
    IN  IF k[2] = 1 THEN x ELSE RMul(RInt(RFloor(k) + 1), step)

\* the smallest step-aligned quantity >= min_qty whose notional at price
\* meets min_notional
SmallestMeeting(price, min_qty, step, min_notional) ==
    LET lo == RMax(RDiv(min_notional, price), min_qty)
    IN  IF RLt(Zero, step) THEN CeilToStep(lo, step) ELSE lo

\* the quantity after the clamp to min_qty and the floor to the step
Clamped(qty, min_qty, step) ==
    LET q0 == RMax(qty, min_qty)
    IN  IF RLt(Zero, step) THEN RMul(RInt(RFloor(RDiv(q0, step))), step) ELSE q0

\* C16: when the clamped and floored quantity is > 0 and its notional is
\* below minNotional, enforce_rules returns the smallest step-aligned
\* quantity >= minQty whose notional meets minNotional (one exists for every
\* price > 0, so None is not returned).
C16_RaiseToNotional ==
    LET q == Clamped(enf_in.qty, enf_in.min_qty, enf_in.step)
    IN  (/\ enf_out.called
         /\ RLt(Zero, q)
         /\ RLt(RMul(q, enf_in.price), enf_in.min_notional))
        => enf_out.q = SmallestMeeting(enf_in.price, enf_in.min_qty, enf_in.step,
                                       enf_in.min_notional)

\* the last n elements of seq, all of it when it is shorter
LastOf(seq, n) ==
    IF Len(seq) <= n THEN seq ELSE SubSeq(seq, Len(seq) - n + 1, Len(seq))

\* C18: after any on_price calls the history of a strategy holds at most
\* its capacity (window; max(fast, slow)) of prices, and they are the most
\* recent prices fed, in arrival order.
C18_BoundedHistory ==
    /\ Len(sbuf.mr) <= MR_WINDOW
    /\ sbuf.mr = LastOf(fed, MR_WINDOW)
    /\ Len(sbuf.mom) <= (IF FAST > SLOW THEN FAST ELSE SLOW)
    /\ sbuf.mom = LastOf(fed, IF FAST > SLOW THEN FAST ELSE SLOW)

\* both histories are full and prices that differ from the kept ones have
\* been evicted
C18_Witness ==
    /\ Len(fed) = MaxFeed
    /\ Len(sbuf.mr) = MR_WINDOW
    /\ fed[1] # fed[2] /\ fed[2] # fed[3] /\ fed[MaxFeed - 1] # fed[MaxFeed]

C20_FailOpenOnlyAtDefault ==
    (g_out.called /\ ~g_in.file.ok) =>
        LET l == Getenv(g_in.env.LIGHTHOUSE_L_MIN, "0.0")
        IN  /\ g_out.permit => (l = "0.0" /\ ParseFloat(l) = Zero)
            /\ ParseFloat(l) # Zero => ~g_out.permit
            /\ g_in.env.LIGHTHOUSE_L_MIN \in {Unset, "0.0"} => g_out.permit

\* the gate failed open: no metrics file, LIGHTHOUSE_L_MIN unset, the other
\* two thresholds set
C20_Witness ==
    /\ g_out.called /\ g_out.permit
    /\ ~g_in.file.ok
    /\ g_in.env.LIGHTHOUSE_L_MIN = Unset
    /\ g_in.env.LIGHTHOUSE_G_MAX # Unset

\* engine.py:80-146 with EPICENTER_COOLDOWN_SEC=1: the quota of a symbol is
\* reached early and its deadline passes while the loop still runs
InitQuota ==
    /\ rules = [s \in Symbol |->
                  get_exchange_rules(CHOOSE r \in ExchangeInfo(s) : r.ok)]
    /\ Booted
    /\ dry = DRY_RUN(env)
    /\ cooldown = 1
    /\ prices = [s \in Symbol |-> Zero]
    /\ strats = [s \in Symbol |-> [mom |-> <<>>, mr |-> <<>>]]
    /\ bal = InitialBalances
    /\ next_t = [s \in Symbol |-> 0]
    /\ trades = 0
    /\ done = [s \in Symbol |-> 0]
    /\ now = 0
    /\ gate = FALSE
    /\ pc = "wait"
    /\ idx = Len(symbols) + 1
    /\ all_done = FALSE
    /\ placed = [s \in Symbol |-> NoOrder]
    /\ BlendIdle /\ EnforceIdle /\ RouterIdle /\ StrategyIdle /\ GateIdle /\ PureIdle

SpecQuota == InitQuota /\ [][Next]_vars

\* C24: done[s] is the number of orders routed for s and never exceeds the
\* quota; once it has reached the quota no order is routed for s and its
\* counter and deadline never change again.
C24_QuotaFinal ==
    /\ [](\A s \in Symbol : done[s] = placed[s].n /\ done[s] <= TARGET_PER_SYMBOL)
    /\ [][\A s \in Symbol :
             done[s] >= TARGET_PER_SYMBOL =>
                 /\ placed'[s] = placed[s]
                 /\ done'[s] = done[s]
                 /\ next_t'[s] = next_t[s]]_vars

\* a symbol at its quota, its deadline passed and a price at hand, has been
\* passed over
C24_Witness ==
    \E i \in 1..Len(symbols) :
        /\ done[symbols[i]] = TARGET_PER_SYMBOL
        /\ pc = "iter" /\ i < idx
        /\ now >= next_t[symbols[i]]
        /\ RLt(Zero, prices[symbols[i]])

\* C25: an order is routed for s only in a cycle in which s is below its
\* quota, now >= next_t[s] and prices[s] > 0; the price of a routed order
\* is > 0.
C25_RoutedOnlyWhenDue ==
    [][\A s \in Symbol :
          placed'[s].n > placed[s].n =>
              /\ done[s] < TARGET_PER_SYMBOL
              /\ now >= next_t[s]
              /\ RLt(Zero, prices[s])
              /\ placed'[s].t = now
              /\ RLt(Zero, placed'[s].px)]_vars

\* an order has been routed in a cycle later than the first, for a symbol
\* that had a deadline
C25_Witness ==
    \E s \in Symbol : placed[s].n = 1 /\ placed[s].t > 0 /\ pc = "iter"

\* C26: when the decision for a due symbol is HOLD, no order is routed, the
\* counters and the ledger are unchanged, and the symbol's deadline becomes
\* now + 2, which is not now + cooldown.
C26_HoldRepoll ==
    [][\/ idx' = idx
       \/ ~InLoop
       \/ /\ UNCHANGED <<placed, done, trades, bal>>
          /\ next_t'[cur] = now + 2
          /\ next_t'[cur] # now + cooldown
       \/ ~(Due(cur) /\ decided(cur) = "HOLD")]_vars

\* a due symbol with prices has just been left on HOLD
C26_Witness ==
    /\ pc = "iter" /\ idx > 1
    /\ next_t[symbols[idx - 1]] = now + 2
    /\ Len(strats[symbols[idx - 1]].mom) = SLOW

\* C27: when enforce_rules gives None (or 0) for a due symbol with a decided
\* side, assets and a balance to spend, no order is routed, the counters and
\* the ledger are unchanged, and the symbol's deadline becomes now + 5.
C27_NotViableRetry ==
    [][\/ idx' = idx
       \/ ~InLoop
       \/ /\ UNCHANGED <<placed, done, trades, bal>>
          /\ next_t'[cur] = now + 5
          /\ pc' = "iter"
       \/ ~(/\ Due(cur) /\ decided(cur) # "HOLD"
            /\ HasAssets(cur) /\ RLt(Zero, avail(cur))
            /\ sized(cur) \in {None, Zero})]_vars

\* the order sized for the first symbol was not viable: the symbol has its
\* assets and a balance, and its deadline is now + 5
C27_Witness ==
    /\ pc = "iter" /\ idx > 1
    /\ HasAssets(symbols[1])
    /\ next_t[symbols[1]] = now + 5
    /\ \A a \in Asset : a \in {rules[symbols[1]].base, rules[symbols[1]].quote}
                              => RLt(Zero, bal[a])

(***************************************************************************)
(* SpecRules: the rule lookups of the two programs.  The engine builds its *)
(* rules dict entry by entry over its symbols list and reads it in the     *)
(* loop; the autopilot looks a symbol up through its cache.                *)
(***************************************************************************)
\* symbols lists of main(): engine.py:88 keeps every entry of
\* EPICENTER_SYMBOLS, repeated ones included
BootLists == {<<"BTCUSDT">>, <<"BTCUSDT", "ETHBTC">>, <<"ETHBTC", "ETHBTC">>,
              <<"ETHBTC", "BTCUSDT", "ETHBTC">>}

\* what GET /v3/exchangeInfo can give for s: a failure, or one of the entries
Answers(s) ==
    {[ok |-> FALSE]} \cup
    {[ok |-> TRUE, status |-> st, baseAsset |-> r.baseAsset,
      quoteAsset |-> r.quoteAsset, filters |-> r.filters] :
        st \in {"TRADING", "BREAK"}, r \in {x \in ExchangeInfo(s) : x.ok}}

\* d[k] = v
DictPut(d, k, v) == [x \in DOMAIN d \cup {k} |-> IF x = k THEN v ELSE d[x]]

\* autopilot.py:102
UnknownRule == [minQty |-> Zero, stepSize |-> Zero, minNotional |-> Zero,
                status |-> "UNKNOWN", baseAsset |-> NoAsset, quoteAsset |-> NoAsset]

\* autopilot.py:101-118: the rule made of the answer info (ok = FALSE: _request
\* returned None, or the answer has no entry for the symbol)
Autopilot_rules(info) ==
    IF ~info.ok THEN UnknownRule
    ELSE FoldFilters(info.filters,
                     [UnknownRule EXCEPT !.status = info.status,
                                         !.baseAsset = info.baseAsset,
                                         !.quoteAsset = info.quoteAsset])

Sent(who, s) == [reqs EXCEPT ![who][s] = reqs[who][s] + 1]

\* engine.py:100: one entry of the dict comprehension
EngineBuild ==
    /\ boot_i <= Len(boot_list)
    /\ LET s == boot_list[boot_i]
       IN  \E resp \in Answers(s) :
              /\ built' = DictPut(built, s, get_exchange_rules(resp))
              /\ reqs' = Sent("engine", s)
              /\ looked' = [called |-> TRUE, who |-> "engine", symbol |-> s,
                            fetched |-> TRUE, ok |-> resp.ok,
                            rule |-> get_exchange_rules(resp)]
    /\ boot_i' = boot_i + 1
    /\ UNCHANGED <<boot_list, cache>>
    /\ UNCHANGED <<engineVars, blendVars, enfVars, bootVars, routerVars,
                   stratVars, gateVars, uniVars, mrVars, floatVars, threadVars>>

\* engine.py:180: rule = rules[s], in the loop
EngineRead ==
    /\ boot_i > Len(boot_list)
    /\ \E s \in DOMAIN built :
          looked' = [called |-> TRUE, who |-> "engine", symbol |-> s,
                     fetched |-> FALSE, ok |-> TRUE, rule |-> built[s]]
    /\ UNCHANGED <<boot_list, boot_i, built, cache, reqs>>
    /\ UNCHANGED <<engineVars, blendVars, enfVars, bootVars, routerVars,
                   stratVars, gateVars, uniVars, mrVars, floatVars, threadVars>>

\* autopilot.py:97-120
Autopilot_get_exchange_rules ==
    /\ \E s \in Symbol :
          IF s \in DOMAIN cache
          THEN /\ looked' = [called |-> TRUE, who |-> "autopilot", symbol |-> s,
                             fetched |-> FALSE, ok |-> TRUE, rule |-> cache[s]]
               /\ UNCHANGED <<cache, reqs>>
          ELSE \E info \in Answers(s) :
                  /\ reqs' = Sent("autopilot", s)
                  /\ cache' = DictPut(cache, s, Autopilot_rules(info))
                  /\ looked' = [called |-> TRUE, who |-> "autopilot", symbol |-> s,
                                fetched |-> TRUE, ok |-> info.ok,
                                rule |-> Autopilot_rules(info)]
    /\ UNCHANGED <<boot_list, boot_i, built>>
    /\ UNCHANGED <<engineVars, blendVars, enfVars, bootVars, routerVars,
                   stratVars, gateVars, uniVars, mrVars, floatVars, threadVars>>

InitRules ==
    /\ EngineRest /\ ConfigRest
    /\ BlendIdle /\ EnforceIdle /\ RouterIdle /\ StrategyIdle /\ GateIdle
    /\ UniverseIdle /\ MeanRevIdle /\ FloatIdle /\ ThreadIdle
    /\ boot_list \in BootLists
    /\ boot_i = 1
    /\ built = EmptyDict /\ cache = EmptyDict
    /\ reqs = [w \in {"engine", "autopilot"} |-> [s \in Symbol |-> 0]]
    /\ looked = NoLookup
NextRules == EngineBuild \/ EngineRead \/ Autopilot_get_exchange_rules
SpecRules == InitRules /\ [][NextRules]_vars

\* C21: a rule lookup whose metadata fetch failed gives a rule with
\* minQty = 0, stepSize = 0 and minNotional = 0, and the rule is stored: the
\* engine's start-up goes on to the next symbol.
C21_FailOpenRule ==
    (looked.called /\ looked.fetched /\ ~looked.ok) =>
        /\ looked.rule.minQty = Zero
        /\ looked.rule.stepSize = Zero
        /\ looked.rule.minNotional = Zero
        /\ looked.who = "engine" =>
               /\ built[looked.symbol] = looked.rule
               /\ looked.symbol = boot_list[boot_i - 1]
        /\ looked.who = "autopilot" => cache[looked.symbol] = looked.rule

\* the engine's start-up is complete and the fetch for its last symbol failed
C21_Witness ==
    /\ looked.called /\ looked.fetched /\ ~looked.ok
    /\ looked.who = "engine"
    /\ boot_i > Len(boot_list)
    /\ DOMAIN built = {boot_list[i] : i \in 1..Len(boot_list)}

\* C22: each program sends at most one metadata request per symbol, and a
\* rule once stored for a symbol is the rule every later lookup gives: it is
\* neither replaced nor changed.
C22_FetchedOnce ==
    /\ [](\A w \in {"engine", "autopilot"} : \A s \in Symbol : reqs[w][s] <= 1)
    /\ [][/\ \A s \in DOMAIN cache : s \in DOMAIN cache' /\ cache'[s] = cache[s]
          /\ \A s \in DOMAIN built : s \in DOMAIN built' /\ built'[s] = built[s]
          /\ (looked'.called /\ ~looked'.fetched) =>
                 looked'.rule = (IF looked'.who = "engine" THEN built
                                 ELSE cache)[looked'.symbol]]_vars

(***************************************************************************)
(* SpecUniverse: one call of fetch_spot_universe, universe.py:8-35         *)
(***************************************************************************)
MaxVolume == 3
MaxLimit == 2

\* the symbols of the exchange's listing, in the order of its answer, with
\* their quote assets
Listed == <<"ETHEUR", "BTCUSDT", "ETHBTC">>
QuoteOf(sym) ==
    CASE sym = "ETHEUR" -> "EUR" [] sym = "BTCUSDT" -> "USDT" [] sym = "ETHBTC" -> "BTC"

\* GET /v3/ticker/24hr for one symbol: the request raises, or answers with a
\* status code and a quoteVolume
Tickers ==
    {[raised |-> TRUE, status_code |-> 0, quoteVolume |-> 0],
     [raised |-> FALSE, status_code |-> 500, quoteVolume |-> 0]} \cup
    {[raised |-> FALSE, status_code |-> 200, quoteVolume |-> v] : v \in 1..MaxVolume}

\* the entries of GET /v3/exchangeInfo, each with the ticker answer the
\* exchange would give for it; isSpotTradingAllowed is absent (True) but for
\* BTCUSDT, where it takes both values
Listings ==
    {[i \in 1..Len(Listed) |->
         [symbol |-> Listed[i], quoteAsset |-> QuoteOf(Listed[i]),
          status |-> st[i],
          isSpotTradingAllowed |-> (Listed[i] = "BTCUSDT" => spot),
          ticker |-> tk[i]]] :
       st \in [1..Len(Listed) -> {"TRADING", "BREAK"}],
       tk \in [1..Len(Listed) -> Tickers],
       spot \in BOOLEAN}

\* sorted ascending by volume
RECURSIVE InsertAsc(_, _)
InsertAsc(x, sorted) ==
    IF sorted = <<>> THEN <<x>>
    ELSE IF Head(sorted).qvol <= x.qvol THEN <<Head(sorted)>> \o InsertAsc(x, Tail(sorted))
    ELSE <<x>> \o sorted

\* universe.py:32: out.sort(key=lambda x: x[1], reverse=True), a stable sort:
\* x goes behind the entries of at least its volume
RECURSIVE InsertDesc(_, _)
InsertDesc(x, sorted) ==
    IF sorted = <<>> THEN <<x>>
    ELSE IF Head(sorted).qvol >= x.qvol THEN <<Head(sorted)>> \o InsertDesc(x, Tail(sorted))
    ELSE <<x>> \o sorted

RECURSIVE SortDesc(_, _)
SortDesc(out, sorted) ==
    IF out = <<>> THEN sorted
    ELSE SortDesc(Tail(out), InsertDesc(Head(out), sorted))

\* universe.py:17-31: the loop that collects out
RECURSIVE Collect(_, _, _)
Collect(entries, quote_whitelist, min_volume_usdt) ==
    IF entries = <<>> THEN <<>>
    ELSE LET s    == Head(entries)
             rest == Collect(Tail(entries), quote_whitelist, min_volume_usdt)
         IN  IF s.status # "TRADING" \/ ~s.isSpotTradingAllowed THEN rest
             ELSE IF quote_whitelist # {} /\ s.quoteAsset \notin quote_whitelist THEN rest
             ELSE IF s.ticker.raised \/ s.ticker.status_code # 200 THEN rest
             ELSE IF s.ticker.quoteVolume >= min_volume_usdt
                  THEN <<[sym |-> s.symbol, qvol |-> s.ticker.quoteVolume]>> \o rest
                  ELSE rest

\* out[:limit], limit >= 0
Prefix(seq, limit) == SubSeq(seq, 1, IF limit < Len(seq) THEN limit ELSE Len(seq))

\* universe.py:8-35.  u.ok = FALSE: the exchangeInfo request raises.
fetch_spot_universe(u) ==
    IF ~u.ok THEN <<>>
    ELSE LET out == SortDesc(Collect(u.listing, u.quote_whitelist, u.min_volume_usdt), <<>>)
             cut == Prefix(out, u.limit)
         IN  [i \in 1..Len(cut) |-> cut[i].sym]

UniverseCall ==
    /\ ~u_out.called
    /\ u_out' = [called |-> TRUE, symbols |-> fetch_spot_universe(u_in)]
    /\ UNCHANGED <<engineVars, blendVars, enfVars, bootVars, routerVars, stratVars,
                   gateVars, rulesVars, mrVars, floatVars, threadVars, u_in>>

InitUniverse ==
    /\ EngineRest /\ ConfigRest
    /\ BlendIdle /\ EnforceIdle /\ RouterIdle /\ StrategyIdle /\ GateIdle
    /\ RulesIdle /\ MeanRevIdle /\ FloatIdle /\ ThreadIdle
    /\ u_in \in [ok : BOOLEAN, listing : Listings,
                 quote_whitelist : {{}, {"USDT"}, {"USDT", "BTC"}},
                 min_volume_usdt : {0, 2}, limit : 0..MaxLimit]
    /\ u_out = [called |-> FALSE, symbols |-> <<>>]
SpecUniverse == InitUniverse /\ [][UniverseCall]_vars

\* the entry of the listing for a symbol
EntryOf(sym) ==
    u_in.listing[CHOOSE i \in 1..Len(u_in.listing) : u_in.listing[i].symbol = sym]
\* the entries the claim lets through
Eligible ==
    {i \in 1..Len(u_in.listing) :
        LET s == u_in.listing[i]
        IN  /\ s.status = "TRADING" /\ s.isSpotTradingAllowed
            /\ u_in.quote_whitelist = {} \/ s.quoteAsset \in u_in.quote_whitelist
            /\ ~s.ticker.raised /\ s.ticker.status_code = 200
            /\ s.ticker.quoteVolume >= u_in.min_volume_usdt}

\* C23: the list returned holds only listed symbols with status TRADING (and
\* spot trading allowed), a
\* quote asset in the whitelist (when one is given) and a reported 24h quote
\* volume >= the minimum, each once, in non-increasing order of volume, at
\* most `limit` of them and none left out for one of smaller volume; it is
\* empty when the metadata request failed.
C23_Universe ==
    u_out.called =>
        LET res == u_out.symbols
        IN  IF ~u_in.ok THEN res = <<>>
            ELSE /\ \A i \in 1..Len(res) :
                       \E j \in Eligible : u_in.listing[j].symbol = res[i]
                 /\ \A i, j \in 1..Len(res) : i # j => res[i] # res[j]
                 /\ Len(res) <= u_in.limit
                 /\ Len(res) = u_in.limit \/ Len(res) = Cardinality(Eligible)
                 /\ \A i \in 1..Len(res) - 1 :
                       EntryOf(res[i]).ticker.quoteVolume
                           >= EntryOf(res[i + 1]).ticker.quoteVolume
                 /\ \A j \in Eligible :
                       (\A i \in 1..Len(res) : res[i] # u_in.listing[j].symbol) =>
                           \A i \in 1..Len(res) :
                               EntryOf(res[i]).ticker.quoteVolume
                                   >= u_in.listing[j].ticker.quoteVolume

\* all three symbols are tradable, ETHEUR is dropped for its quote asset, and
\* the two returned are not in listing order
C23_Witness ==
    /\ u_out.called /\ u_in.ok
    /\ u_in.quote_whitelist = {"USDT", "BTC"} /\ u_in.min_volume_usdt = 2
    /\ u_in.limit = 2
    /\ u_out.symbols = <<"ETHBTC", "BTCUSDT">>
    /\ EntryOf("ETHBTC").ticker.quoteVolume > EntryOf("BTCUSDT").ticker.quoteVolume
    /\ EntryOf("ETHEUR").status = "TRADING"

(***************************************************************************)
(* SpecMeanRev: a MeanReversion(window, z) fed a list of prices, then one  *)
(* signal() call                                                           *)
(***************************************************************************)
MaxMRFeed == 6
MRPrices == {RInt(1), RInt(2), RInt(5)}
MRWindows == {3, 5, 6}
MRThresholds == {RInt(1), <<6, 5>>, RInt(2)}

\* the lists of at most n prices
RECURSIVE PriceLists(_)
PriceLists(n) ==
    IF n = 0 THEN {<<>>}
    ELSE LET shorter == PriceLists(n - 1)
         IN  shorter \cup {Append(l, p) : l \in {x \in shorter : Len(x) = n - 1},
                                           p \in MRPrices}

\* strategy_api.py:19-20 for each price in turn: self.buf after the feed
RECURSIVE FedBuf(_, _, _)
FedBuf(buf, prices_, window) ==
    IF prices_ = <<>> THEN buf
    ELSE FedBuf(MeanReversion_on_price(buf, Head(prices_), window),
                Tail(prices_), window)

MeanRevCall ==
    /\ ~mr_out.called
    /\ mr_out' = [called |-> TRUE,
                  vote |-> MeanReversion_signal(
                               FedBuf(<<>>, mr_in.prices, mr_in.window), mr_in.z)]
    /\ UNCHANGED <<engineVars, blendVars, enfVars, bootVars, routerVars, stratVars,
                   gateVars, rulesVars, uniVars, floatVars, threadVars, mr_in>>

InitMeanRev ==
    /\ EngineRest /\ ConfigRest
    /\ BlendIdle /\ EnforceIdle /\ RouterIdle /\ StrategyIdle /\ GateIdle
    /\ RulesIdle /\ UniverseIdle /\ FloatIdle /\ ThreadIdle
    /\ mr_in \in [window : MRWindows, z : MRThresholds, prices : PriceLists(MaxMRFeed)]
    /\ mr_out = [called |-> FALSE, vote |-> "HOLD"]
SpecMeanRev == InitMeanRev /\ [][MeanRevCall]_vars

\* the integer sum of the numerators of whole-number prices
RECURSIVE IntSum(_)
IntSum(buf) == IF buf = <<>> THEN 0 ELSE Head(buf)[1] + IntSum(Tail(buf))
RECURSIVE IntSqSum(_)
IntSqSum(buf) == IF buf = <<>> THEN 0 ELSE Head(buf)[1] * Head(buf)[1] + IntSqSum(Tail(buf))

\* C30: with n retained prices (the last `window` fed), sum S and sum of
\* squares Q, signal() is HOLD when n < 5; otherwise the z-score is
\* (n*last - S) / sqrt(n*Q - S*S) (0 for a constant window) and the vote is
\* BUY if it is <= -z, SELL if it is >= z, else HOLD.  window=5, z=1.0 fed
\* [1,1,1,1,5] gives SELL.
C30_MeanReversion ==
    mr_out.called =>
        LET fedp == mr_in.prices
            keep == IF Len(fedp) < mr_in.window THEN Len(fedp) ELSE mr_in.window
            buf  == SubSeq(fedp, Len(fedp) - keep + 1, Len(fedp))
            n    == Len(buf)
            num  == n * buf[n][1] - IntSum(buf)
            v    == n * IntSqSum(buf) - IntSum(buf) * IntSum(buf)
            zn   == mr_in.z[1]
            zd   == mr_in.z[2]
            far  == v > 0 /\ zd * zd * num * num >= zn * zn * v
        IN  /\ mr_out.vote = (IF n < 5 THEN "HOLD"
                              ELSE IF far /\ num < 0 THEN "BUY"
                              ELSE IF far /\ num > 0 THEN "SELL"
                              ELSE "HOLD")
            /\ (mr_in.window = 5 /\ mr_in.z = RInt(1)
                  /\ fedp = <<RInt(1), RInt(1), RInt(1), RInt(1), RInt(5)>>)
                 => mr_out.vote = "SELL"

\* signal() has been called on MeanReversion(5, 1.0) fed [1,1,1,1,5]
C30_Witness ==
    /\ mr_out.called
    /\ mr_in = [window |-> 5, z |-> RInt(1),
                prices |-> <<RInt(1), RInt(1), RInt(1), RInt(1), RInt(5)>>]
    /\ mr_out.vote = "SELL"

(***************************************************************************)
(* SpecFloat: Momentum.signal and enforce_rules in the arithmetic of the   *)
(* program, binary64.  The arguments are decimal texts n/d, turned into    *)
(* floats as float() reads them.                                           *)
(***************************************************************************)
MaxTenths == 20
MaxRepeat == 3

\* risk.py:4-7
floor_to_step64(qty, step) ==
    IF FLe(step, F0) THEN qty
    ELSE FMul(FromInt(FFloor(FDiv(qty, step))), step)

Some(v) == [none |-> FALSE, v |-> v]

\* risk.py:19-22: the quantity q2 raised to the minimum notional
enforce_rules64_q2(q2, price, min_notional) ==
    IF FLt(FMul(q2, price), min_notional) THEN NoneF ELSE Some(q2)
\* risk.py:13-23: from the floored quantity q on
enforce_rules64_q(q, price, min_qty, step, min_notional) ==
    IF FLe(q, F0) THEN NoneF
    ELSE IF min_notional.s # 0 /\ FLt(FMul(q, price), min_notional)
         THEN enforce_rules64_q2(
                  floor_to_step64(FMax(FDiv(min_notional, price), min_qty), step),
                  price, min_notional)
         ELSE Some(q)
\* risk.py:12
enforce_rules64_q0(q0, step) ==
    IF step.s # 0 THEN floor_to_step64(q0, step) ELSE q0
\* risk.py:10-23
enforce_rules64(qty, price, min_qty, step, min_notional) ==
    enforce_rules64_q(enforce_rules64_q0(FMax(qty, min_qty), step),
                      price, min_qty, step, min_notional)

\* strategy_api.py:51-52: the loop of _ema. A sign is -1, 0 or 1: the test
\* of ema.s only has the average of one step computed before the next step
\* starts, as the loop does.
RECURSIVE EmaFold64(_, _, _)
EmaFold64(ema, rest, alpha) ==
    IF rest = <<>> \/ ema.s = 2 THEN ema
    ELSE EmaFold64(FAdd(FMul(alpha, Head(rest)),
                        FMul(FSub(FromInt(1), alpha), ema)),
                   Tail(rest), alpha)

\* strategy_api.py:45-53
Momentum_ema64(buf, period) ==
    IF buf = <<>> THEN F0
    ELSE EmaFold64(buf[1], Tail(buf), FDiv(FromInt(2), FromInt(period + 1)))

\* strategy_api.py:59-63: the vote for the fast average f and the slow s
Momentum_vote64(f, s) ==
    IF FLt(s, f) THEN "BUY"
    ELSE IF FLt(f, s) THEN "SELL"
    ELSE "HOLD"
\* strategy_api.py:55-63
Momentum_signal64(buf, fast, slow) ==
    IF Len(buf) < slow THEN "HOLD"
    ELSE Momentum_vote64(Momentum_ema64(buf, fast), Momentum_ema64(buf, slow))

\* strategy_api.py:42-43, n times with the same price
RECURSIVE FedSame(_, _, _, _, _)
FedSame(buf, p, n, fast, slow) ==
    IF n = 0 THEN buf
    ELSE LET buf2 == Momentum_on_price(buf, p, fast, slow)
         IN  \* a full buffer of p is what it was after one more p
             IF buf2 = buf THEN buf
             ELSE FedSame(buf2, p, n - 1, fast, slow)

\* Momentum(fast, slow) fed n times the price p, then signal()
MomentumCall64 ==
    /\ ~fl_out.called
    /\ fl_in.fn = "momentum"
    /\ fl_out' = [called |-> TRUE,
                  vote |-> Momentum_signal64(
                               FedSame(<<>>, FromRat(fl_in.p), fl_in.n,
                                       fl_in.fast, fl_in.slow),
                               fl_in.fast, fl_in.slow),
                  q |-> NoneF]
    /\ UNCHANGED <<engineVars, blendVars, enfVars, bootVars, routerVars, stratVars,
                   gateVars, rulesVars, uniVars, mrVars, threadVars, fl_in>>

EnforceCall64 ==
    /\ ~fl_out.called
    /\ fl_in.fn = "enforce"
    /\ fl_out' = [called |-> TRUE, vote |-> "HOLD",
                  q |-> enforce_rules64(FromRat(fl_in.qty), FromRat(fl_in.price),
                                        FromRat(fl_in.min_qty), FromRat(fl_in.step),
                                        FromRat(fl_in.min_notional))]
    /\ UNCHANGED <<engineVars, blendVars, enfVars, bootVars, routerVars, stratVars,
                   gateVars, rulesVars, uniVars, mrVars, threadVars, fl_in>>

Tenths == {Rat(k, 10) : k \in 0..MaxTenths}
\* Momentum(1, 2) and Momentum(2, 3) fed up to MaxRepeat equal prices, and
\* the engine's Momentum(5, 20) fed twenty
MomentumInputs ==
    {[NoCall64 EXCEPT !.fn = "momentum", !.fast = fs[1], !.slow = fs[2],
                      !.p = p, !.n = n] :
        fs \in {<<1, 2>>, <<2, 3>>}, p \in Tenths \ {Zero}, n \in 0..MaxRepeat}
    \cup
    {[NoCall64 EXCEPT !.fn = "momentum", !.fast = 5, !.slow = 20, !.p = p, !.n = 20] :
        p \in Tenths \ {Zero}}
\* quantities, steps and minimums in tenths at price 1.0, and two calls with
\* finer steps
EnforceInputs ==
    {[NoCall64 EXCEPT !.fn = "enforce", !.qty = q, !.price = RInt(1), !.min_qty = mq,
                      !.step = st, !.min_notional = mn] :
        q \in Tenths, mq \in {Zero, Rat(3, 10)},
        st \in {Zero, Rat(1, 10), Rat(2, 10)}, mn \in {Zero, Rat(1, 10)}}
    \cup
    {[NoCall64 EXCEPT !.fn = "enforce", !.qty = Rat(123456, 100000),
                      !.price = RInt(100), !.step = Rat(1, 1000)],
     [NoCall64 EXCEPT !.fn = "enforce", !.qty = Rat(5, 1000), !.price = Rat(1, 100),
                      !.min_qty = Rat(1, 100), !.step = Rat(1, 100),
                      !.min_notional = Rat(1, 10000)]}

InitFloat ==
    /\ EngineRest /\ ConfigRest
    /\ BlendIdle /\ EnforceIdle /\ RouterIdle /\ StrategyIdle /\ GateIdle
    /\ RulesIdle /\ UniverseIdle /\ MeanRevIdle /\ ThreadIdle
    /\ fl_in \in MomentumInputs \cup EnforceInputs
    /\ fl_out = [called |-> FALSE, vote |-> "HOLD", q |-> NoneF]
NextFloat == MomentumCall64 \/ EnforceCall64
SpecFloat == InitFloat /\ [][NextFloat]_vars

\* C28: when the quantity max(desiredQty, minQty) floored to a multiple of
\* stepSize (unchanged when stepSize is 0) is positive and the notional
\* constraint is absent or met by it, enforce_rules returns that quantity:
\* floor(max(desiredQty, minQty) / stepSize) steps.
C28_FlooredQuantity ==
    (fl_out.called /\ fl_in.fn = "enforce") =>
        LET q0  == RMax(fl_in.qty, fl_in.min_qty)
            k   == IF fl_in.step = Zero THEN 0 ELSE RFloor(RDiv(q0, fl_in.step))
            q   == IF fl_in.step = Zero THEN q0 ELSE RMul(RInt(k), fl_in.step)
            met == \/ fl_in.min_notional = Zero
                   \/ RLe(fl_in.min_notional, RMul(q, fl_in.price))
        IN  (RLt(Zero, q) /\ met) =>
                /\ ~fl_out.q.none
                /\ fl_out.q.v = (IF fl_in.step = Zero THEN FromRat(q0)
                                 ELSE FMul(FromInt(k), FromRat(fl_in.step)))

\* the prices that the Momentum of the call retains
Fed64 == FedSame(<<>>, FromRat(fl_in.p), fl_in.n, fl_in.fast, fl_in.slow)

\* C29: signal() is HOLD while fewer than `slow` prices are retained, and a
\* window of at least `slow` identical prices p gives fast EMA = slow EMA = p
\* and HOLD.
C29_IdenticalPricesHold ==
    (fl_out.called /\ fl_in.fn = "momentum") =>
        /\ fl_out.vote = "HOLD"
        /\ fl_in.n >= fl_in.slow =>
               /\ Momentum_ema64(Fed64, fl_in.fast) = FromRat(fl_in.p)
               /\ Momentum_ema64(Fed64, fl_in.slow) = FromRat(fl_in.p)

(***************************************************************************)
(* SpecRace: one signal() call of the engine loop, statement by statement, *)
(* while the websocket thread runs on_msg for the same symbol.  The two    *)
(* threads share the strategy's deque without a lock; a deque operation    *)
(* (append, len, indexing, list(), sum()) is one step, the generator       *)
(* expression of MeanReversion.signal is a loop of steps.                  *)
(***************************************************************************)
MaxRaceTicks == 2

\* strategy_api.py:28-33: the vote for a mean, a variance and a last price.
\* dev = max(1e-12, sqrt(var)): with var = 0 the z-score is (last - mean) /
\* 1e-12, beyond every threshold of the model as soon as last # mean.
MeanReversion_vote(mean, var, last, z) ==
    IF var = Zero
    THEN IF RLt(last, mean) \/ (last = mean /\ RLe(z, Zero)) THEN "BUY"
         ELSE IF RLt(mean, last) THEN "SELL"
         ELSE "HOLD"
    ELSE IF GeScaledRoot(RSub(mean, last), z, var) THEN "BUY"
         ELSE IF GeScaledRoot(RSub(last, mean), z, var) THEN "SELL"
         ELSE "HOLD"

\* strategy_api.py:59-63
Momentum_vote(f, s) ==
    IF RLt(s, f) THEN "BUY" ELSE IF RLt(f, s) THEN "SELL" ELSE "HOLD"

\* the deque the call reads
RaceBuf == sbuf[race.strat]
RaceRest == <<engineVars, blendVars, enfVars, bootVars, routerVars, gateVars,
              rulesVars, uniVars, mrVars, floatVars, sigs, ev, sim, tri>>

\* engine.py:109-121 in the websocket thread: on_price appends to both deques.
\* A call in progress has one more history state behind it, and a deque
\* iterator it holds is invalidated.
RaceTick ==
    /\ Len(fed) < MaxRaceTicks
    /\ race.pc \notin {"done", "failed"}
    /\ \E p \in TickPrices :
          LET after == [mom |-> Momentum_on_price(sbuf.mom, p, FAST, SLOW),
                        mr  |-> MeanReversion_on_price(sbuf.mr, p, MR_WINDOW)]
          IN  /\ fed' = Append(fed, p)
              /\ sbuf' = after
              /\ race' = [race EXCEPT
                            !.seen = IF race.pc = "idle" THEN {}
                                     ELSE race.seen \cup {after[race.strat]},
                            !.mutated = race.pc = "iterating"]
    /\ UNCHANGED RaceRest

\* engine.py:170: the loop calls signal(); strategy_api.py:23-24, 55-56
SignalEnter ==
    /\ race.pc = "idle"
    /\ \E st \in {"mom", "mr"} :
          LET few == Len(sbuf[st]) < (IF st = "mom" THEN SLOW ELSE 5)
          IN  race' = [race EXCEPT
                         !.strat = st,
                         !.seen = {sbuf[st]},
                         !.pc = IF few THEN "done"
                                ELSE IF st = "mom" THEN "fast_seed" ELSE "sum",
                         !.vote = "HOLD"]
    /\ UNCHANGED <<RaceRest, fed, sbuf>>

\* strategy_api.py:49, in _ema(fast) and in _ema(slow): ema = self.buf[0]
EmaSeed ==
    /\ race.pc \in {"fast_seed", "slow_seed"}
    /\ race' = [race EXCEPT
                  !.seed = RaceBuf[1],
                  !.pc = IF race.pc = "fast_seed" THEN "fast_list" ELSE "slow_list"]
    /\ UNCHANGED <<RaceRest, fed, sbuf>>

\* strategy_api.py:50-52 in _ema(fast): list(self.buf) and the loop over it
EmaFast ==
    /\ race.pc = "fast_list"
    /\ race' = [race EXCEPT
                  !.f = EmaFold(race.seed, Tail(RaceBuf), Rat(2, FAST + 1)),
                  !.pc = "slow_seed"]
    /\ UNCHANGED <<RaceRest, fed, sbuf>>

\* strategy_api.py:50-52 in _ema(slow), then strategy_api.py:59-63
EmaSlow ==
    /\ race.pc = "slow_list"
    /\ race' = [race EXCEPT
                  !.vote = Momentum_vote(race.f,
                               EmaFold(race.seed, Tail(RaceBuf), Rat(2, SLOW + 1))),
                  !.pc = "done"]
    /\ UNCHANGED <<RaceRest, fed, sbuf>>

\* strategy_api.py:25: sum(self.buf)
MeanSum ==
    /\ race.pc = "sum"
    /\ race' = [race EXCEPT !.total = RSum(RaceBuf), !.pc = "len"]
    /\ UNCHANGED <<RaceRest, fed, sbuf>>

\* strategy_api.py:25: / len(self.buf)
MeanLen ==
    /\ race.pc = "len"
    /\ race' = [race EXCEPT !.mean = RDiv(race.total, RInt(Len(RaceBuf))),
                            !.pc = "iter"]
    /\ UNCHANGED <<RaceRest, fed, sbuf>>

\* strategy_api.py:26: iter(self.buf) for the generator expression
IterBegin ==
    /\ race.pc = "iter"
    /\ race' = [race EXCEPT !.mutated = FALSE, !.pc = "iterating"]
    /\ UNCHANGED <<RaceRest, fed, sbuf>>

\* strategy_api.py:26: the generator runs to its end and the sum is divided
\* by len(self.buf); a deque appended to since iter() raises RuntimeError
\* ("deque mutated during iteration") at the next element, which nothing
\* catches up to the finally of engine.py:219
IterEnd ==
    /\ race.pc = "iterating"
    /\ race' = IF race.mutated THEN [race EXCEPT !.pc = "failed"]
               ELSE [race EXCEPT
                       !.var = RDiv(SqDevSum(RaceBuf, race.mean), RInt(Len(RaceBuf))),
                       !.pc = "last"]
    /\ UNCHANGED <<RaceRest, fed, sbuf>>

\* strategy_api.py:27-33: last = self.buf[-1] and the vote
LastVote ==
    /\ race.pc = "last"
    /\ race' = [race EXCEPT
                  !.vote = MeanReversion_vote(race.mean, race.var,
                                              RaceBuf[Len(RaceBuf)], Z_THRESHOLD),
                  !.pc = "done"]
    /\ UNCHANGED <<RaceRest, fed, sbuf>>

\* the histories the strategies hold when the call starts
RaceHistories ==
    {b \in UNION {[1..n -> TickPrices] : n \in 0..MR_WINDOW} :
        Len(b) \in {0, MR_WINDOW}}
InitRace ==
    /\ EngineRest /\ ConfigRest /\ BlendIdle /\ EnforceIdle /\ RouterIdle /\ GateIdle
    /\ RulesIdle /\ UniverseIdle /\ MeanRevIdle /\ FloatIdle
    /\ EvalIdle /\ SimIdle /\ ThreeIdle
    /\ fed = <<>> /\ sigs = <<>>
    /\ \E h \in RaceHistories :
          sbuf = [mom |-> SubSeq(h, Len(h) - Least(Len(h), MomentumCap) + 1, Len(h)),
                  mr  |-> h]
    /\ race = NoSignal
NextRace ==
    \/ RaceTick
    \/ SignalEnter
    \/ EmaSeed
    \/ EmaFast
    \/ EmaSlow
    \/ MeanSum
    \/ MeanLen
    \/ IterBegin
    \/ IterEnd
    \/ LastVote
SpecRace == InitRace /\ [][NextRace]_vars

\* the vote of signal() on the history b
VoteOn(st, b) ==
    IF st = "mom" THEN Momentum_signal(b, FAST, SLOW)
    ELSE MeanReversion_signal(b, Z_THRESHOLD)

\* C33: a vote that the engine loop obtains from signal() is the vote of one
\* of the histories the strategy held during the call, and the call never
\* fails because the history changed under it.
C33_VoteOfOneHistory ==
    /\ race.pc # "failed"
    /\ race.pc = "done" => \E b \in race.seen : race.vote = VoteOn(race.strat, b)

(***************************************************************************)
(* SpecEval: the body of the for loop of engine.py:160-215 for one symbol, *)
(* statement by statement, while the websocket thread overwrites prices[s] *)
(***************************************************************************)
MaxEvalTicks == 2

\* the histories of the symbol's Momentum when the evaluation starts
EvalHistories == {<<>>, <<RInt(1), RInt(2)>>, <<RInt(2), RInt(1)>>}
\* engine.py:172-175 on the votes of the two strategies of s
EvalSide(s) == Blend(<<Momentum_signal(strats[s].mom, FAST, SLOW),
                       MeanReversion_signal(strats[s].mr, Z_THRESHOLD)>>)
\* engine.py:192-193
desired_at(available, sd, px) ==
    IF sd = "BUY" THEN RDiv(RMul(available, pos_pct), px)
    ELSE RMul(available, pos_pct)
\* the shared slot read again for the ledger update
LedgerPriceShared(e) == prices[e.s]
\* engine.py:205, 210: the price of the ledger update is the local px
LedgerPrice(e) == e.px

EvalRest == <<rules, dry, cooldown, now, gate, pc, idx, all_done, placed,
              blendVars, enfVars, bootVars, routerVars, stratVars, gateVars,
              rulesVars, uniVars, mrVars, floatVars, race, sim, tri>>

\* engine.py:109-121 in the websocket thread
EvalTick ==
    /\ ev.ticks < MaxEvalTicks
    /\ \E px \in TickPrices :
          /\ prices' = [prices EXCEPT ![ev.s] = px]
          /\ strats' = [strats EXCEPT ![ev.s] = on_price(strats[ev.s], px)]
    /\ ev' = [ev EXCEPT !.ticks = ev.ticks + 1]
    /\ UNCHANGED <<EvalRest, bal, next_t, trades, done>>

\* engine.py:166-168: px = prices.get(s, 0.0)
ReadPrice ==
    /\ ev.pc = "read"
    /\ ev' = [ev EXCEPT !.px = prices[ev.s],
                        !.pc = IF RLe(prices[ev.s], Zero) THEN "skipped" ELSE "vote"]
    /\ UNCHANGED <<EvalRest, prices, strats, bal, next_t, trades, done>>

\* engine.py:170-178
EvalVotes ==
    /\ ev.pc = "vote"
    /\ ev' = [ev EXCEPT !.side = EvalSide(ev.s),
                        !.pc = IF EvalSide(ev.s) = "HOLD" THEN "held" ELSE "size"]
    /\ next_t' = IF EvalSide(ev.s) = "HOLD"
                 THEN [next_t EXCEPT ![ev.s] = now + HOLD_REPOLL_SEC]
                 ELSE next_t
    /\ UNCHANGED <<EvalRest, prices, strats, bal, trades, done>>

\* engine.py:180-193: the rule, the balance to spend, the desired quantity
EvalSize ==
    /\ ev.pc = "size"
    /\ LET rule  == rules[ev.s]
           spend == IF ev.side = "BUY" THEN rule.quote ELSE rule.base
           ok    == /\ rule.base # NoAsset /\ rule.quote # NoAsset
                    /\ RLt(Zero, bal[spend])
       IN  /\ ev' = IF ok
                    THEN [ev EXCEPT !.want = desired_at(bal[spend], ev.side, ev.px),
                                    !.size_px = ev.px,
                                    !.pc = "enforce"]
                    ELSE [ev EXCEPT !.pc = "retry"]
           /\ next_t' = IF ok THEN next_t
                        ELSE [next_t EXCEPT ![ev.s] = now + RETRY_SEC]
    /\ UNCHANGED <<EvalRest, prices, strats, bal, trades, done>>

\* engine.py:194-197
EvalEnforce ==
    /\ ev.pc = "enforce"
    /\ LET rule == rules[ev.s]
           q    == enforce_rules(ev.want, ev.px, rule.minQty, rule.stepSize,
                                 rule.minNotional)
           ok   == q # None /\ q # Zero
       IN  /\ ev' = IF ok
                    THEN [ev EXCEPT !.qty = q, !.enf_px = ev.px, !.pc = "route"]
                    ELSE [ev EXCEPT !.pc = "retry"]
           /\ next_t' = IF ok THEN next_t
                        ELSE [next_t EXCEPT ![ev.s] = now + RETRY_SEC]
    /\ UNCHANGED <<EvalRest, prices, strats, bal, trades, done>>

\* engine.py:200-215: place_market returns and the ledger is updated, or it
\* raises and only the deadline is set
EvalRoute ==
    /\ ev.pc = "route"
    /\ \E http_ok \in BOOLEAN :
          IF place_market(ev.s, ev.side, ev.qty, http_ok).raised
          THEN /\ ev' = [ev EXCEPT !.pc = "error"]
               /\ UNCHANGED <<bal, trades, done>>
          ELSE /\ ev' = [ev EXCEPT !.led_px = LedgerPrice(ev), !.bal0 = bal,
                                   !.pc = "routed"]
               /\ bal' = LedgerAfter(bal, ev.side, rules[ev.s].base,
                                     rules[ev.s].quote, ev.qty, LedgerPrice(ev))
               /\ trades' = trades + 1
               /\ done' = [done EXCEPT ![ev.s] = done[ev.s] + 1]
    /\ next_t' = [next_t EXCEPT ![ev.s] = Deadline(now)]
    /\ UNCHANGED <<EvalRest, prices, strats>>

\* the loop has reached a symbol that is under its quota and due; the
\* websocket thread has delivered some ticks before
InitEval ==
    /\ \E resp \in [Symbol -> UNION {ExchangeInfo(s) : s \in Symbol}] :
          /\ \A s \in Symbol : resp[s] \in ExchangeInfo(s)
          /\ rules = [s \in Symbol |-> get_exchange_rules(resp[s])]
    /\ Booted
    /\ dry = DRY_RUN(env)
    /\ cooldown \in Cooldowns
    /\ prices \in [Symbol -> TickPrices \cup {Zero}]
    /\ \E h \in [Symbol -> EvalHistories] :
          strats = [s \in Symbol |-> [mom |-> h[s], mr |-> <<>>]]
    /\ bal = InitialBalances
    /\ next_t = [s \in Symbol |-> 0]
    /\ trades = 0
    /\ done = [s \in Symbol |-> 0]
    /\ now = 0
    /\ gate = TRUE
    /\ pc = "iter"
    /\ \E i \in 1..Len(symbols) :
          /\ idx = i
          /\ ev = [NoEval EXCEPT !.pc = "read", !.s = symbols[i]]
    /\ all_done = FALSE
    /\ placed = [s \in Symbol |-> NoOrder]
    /\ BlendIdle /\ EnforceIdle /\ RouterIdle /\ StrategyIdle /\ GateIdle
    /\ RulesIdle /\ UniverseIdle /\ MeanRevIdle /\ FloatIdle
    /\ RaceIdle /\ SimIdle /\ ThreeIdle
NextEval ==
    \/ EvalTick
    \/ ReadPrice
    \/ EvalVotes
    \/ EvalSize
    \/ EvalEnforce
    \/ EvalRoute
SpecEval == InitEval /\ [][NextEval]_vars

\* C34: within one evaluation the price is read once: the price that sized
\* the order, the price handed to enforce_rules and the price of the ledger
\* update are the value read from prices[s] at the start, whatever the
\* websocket thread has written to prices[s] since.
C34_PriceReadOnce ==
    ev.pc = "routed" =>
        LET rule  == rules[ev.s]
            spend == IF ev.side = "BUY" THEN rule.quote ELSE rule.base
        IN  /\ ev.size_px = ev.px /\ ev.enf_px = ev.px /\ ev.led_px = ev.px
            /\ ev.qty = enforce_rules(desired_at(ev.bal0[spend], ev.side, ev.px),
                                      ev.px, rule.minQty, rule.stepSize,
                                      rule.minNotional)
            /\ bal = LedgerAfter(ev.bal0, ev.side, rule.base, rule.quote, ev.qty, ev.px)

\* an order was routed at a price that the websocket thread had overwritten
\* with another during the evaluation
C34_Witness ==
    /\ ev.pc = "routed"
    /\ ev.ticks > 0
    /\ prices[ev.s] # ev.px

(***************************************************************************)
(* SpecSim: SimAccount.trade_once of multi_sim_ws.py, called again and     *)
(* again on one account with the prices and rules of each call.  The       *)
(* arithmetic is exact.                                                    *)
(***************************************************************************)
MaxSimCalls == 3

SimSymbol == {"BNBBTC", "ETHBTC"}
\* multi_sim_ws.py:75-78
Sim_floor_to_step(qty, step) ==
    IF RLe(step, Zero) THEN qty
    ELSE RMul(RInt(RFloor(RDiv(qty, step))), step)

\* multi_sim_ws.py:136-141: the quantity raised to the minimum notional
Sim_raise(qty2, price, rule) ==
    IF RLt(RMul(qty2, price), rule.minNotional) THEN None ELSE qty2
\* multi_sim_ws.py:131-141: from the floored quantity on
Sim_notional(qty, price, rule) ==
    IF RLe(qty, Zero) THEN None
    ELSE IF rule.minNotional # Zero /\ RLt(RMul(qty, price), rule.minNotional)
         THEN Sim_raise(Sim_floor_to_step(RMax(RDiv(rule.minNotional, price),
                                               rule.minQty), rule.stepSize),
                        price, rule)
         ELSE qty
\* multi_sim_ws.py:129-130
Sim_floored(qty, rule) ==
    IF rule.stepSize # Zero THEN Sim_floor_to_step(qty, rule.stepSize) ELSE qty
\* multi_sim_ws.py:129-141: the inline sizing of trade_once; None where
\* trade_once returns False
Sim_sizing(qty, price, rule) ==
    Sim_notional(Sim_floored(RMax(qty, rule.minQty), rule), price, rule)

\* a fill that is booked whatever the balance
Sim_fill_unchecked(b, sd, base, quote, qty, price) ==
    IF sd = "BUY"
    THEN [a \in DOMAIN b |-> IF a = quote THEN RSub(b[a], RMul(qty, price))
                             ELSE IF a = base THEN RAdd(b[a], qty) ELSE b[a]]
    ELSE [a \in DOMAIN b |-> IF a = base THEN RSub(b[a], qty)
                             ELSE IF a = quote THEN RAdd(b[a], RMul(qty, price))
                             ELSE b[a]]
\* multi_sim_ws.py:145-155: the balances after the fill, None where
\* trade_once returns False
Sim_fill(b, sd, base, quote, qty, price) ==
    IF sd = "BUY"
    THEN IF RLt(b[quote], RMul(qty, price)) THEN None
         ELSE [a \in DOMAIN b |-> IF a = quote THEN RSub(b[a], RMul(qty, price))
                                  ELSE IF a = base THEN RAdd(b[a], qty) ELSE b[a]]
    ELSE IF RLt(b[base], qty) THEN None
         ELSE [a \in DOMAIN b |-> IF a = base THEN RSub(b[a], qty)
                                  ELSE IF a = quote THEN RAdd(b[a], RMul(qty, price))
                                  ELSE b[a]]

\* multi_sim_ws.py:91-97
value_btc(b, px) ==
    RAdd(RAdd(b["BTC"],
              IF RLt(Zero, b["BNB"]) /\ px["BNBBTC"] # None
              THEN RMul(b["BNB"], px["BNBBTC"]) ELSE Zero),
         IF RLt(Zero, b["ETH"]) /\ px["ETHBTC"] # None
         THEN RMul(b["ETH"], px["ETHBTC"]) ELSE Zero)
\* multi_sim_ws.py:99-102
value_usdt(b, px) ==
    IF px["BTCUSDT"] = None THEN Zero ELSE RMul(value_btc(b, px), px["BTCUSDT"])

\* multi_sim_ws.py:104-108: the sides decide() can return
decide(acc) ==
    IF RLt(acc.bal["BTC"], <<6, 10000>>) THEN {"SELL"} ELSE {"BUY", "SELL", "HOLD"}

\* multi_sim_ws.py:157-170: the account after a fill that left balances b
Sim_booked(acc, b, px) ==
    [bal |-> b, trades |-> acc.trades + 1,
     wins |-> IF RLe(value_usdt(acc.bal, px), value_usdt(b, px))
              THEN acc.wins + 1 ELSE acc.wins,
     losses |-> IF RLe(value_usdt(acc.bal, px), value_usdt(b, px))
                THEN acc.losses ELSE acc.losses + 1]
\* multi_sim_ws.py:145-171 for the quantity qty of the sizing
Sim_apply(acc, px, sd, rule, qty, price) ==
    IF qty = None THEN acc
    ELSE IF Sim_fill(acc.bal, sd, rule.base, rule.quote, qty, price) = None THEN acc
    ELSE Sim_booked(acc, Sim_fill(acc.bal, sd, rule.base, rule.quote, qty, price), px)
\* multi_sim_ws.py:125-128
Sim_desired(acc, sd, rule, price, pct) ==
    IF sd = "BUY" THEN RDiv(RMul(acc.bal[rule.quote], pct), price)
    ELSE RMul(acc.bal[rule.base], pct)
\* multi_sim_ws.py:113-124: the calls that return False before the sizing
Sim_sized(acc, symbol, px, sd, rule, pct) ==
    IF px[symbol] = None THEN None
    ELSE IF RLe(px[symbol], Zero) THEN None
    ELSE IF sd = "HOLD" THEN None
    ELSE IF rule.base = NoAsset \/ rule.quote = NoAsset THEN None
    ELSE IF RLe(acc.bal[IF sd = "BUY" THEN rule.quote ELSE rule.base], Zero) THEN None
    ELSE Sim_sizing(Sim_desired(acc, sd, rule, px[symbol], pct), px[symbol], rule)

\* the default pos_pct of trade_once, multi_sim_ws.py:110
SIM_POS_PCT == <<3, 10>>

\* the rules and the price maps the calls are made with: lots in thousandths,
\* or a whole unit as the least quantity where there is no step
SimRules(symbol) ==
    {FailOpenRule} \cup
    {[base |-> IF symbol = "BNBBTC" THEN "BNB" ELSE "ETH", quote |-> "BTC",
      minQty |-> ls[1], stepSize |-> ls[2], minNotional |-> mn] :
        ls \in {<<Zero, <<1, 1000>>>>, <<<<1, 100>>, <<1, 1000>>>>,
                <<RInt(1), Zero>>},
        mn \in {Zero, <<1, 10000>>, <<1, 100>>}}
SimPrices ==
    {[s \in SimSymbol \cup {"BTCUSDT"} |->
         IF s = "BNBBTC" THEN b ELSE IF s = "ETHBTC" THEN e ELSE u] :
        b \in {None, <<1, 10>>}, e \in {Zero, <<1, 20>>, <<1, 5>>},
        u \in {None, RInt(100)}}

\* multi_sim_ws.py:110-171: one call of trade_once
TradeOnce ==
    /\ sim.call.n < MaxSimCalls
    /\ \E symbol \in SimSymbol, px \in SimPrices, sd \in decide(sim.acc) :
          \E rule \in SimRules(symbol) :
             /\ sim' = [acc |-> Sim_apply(sim.acc, px, sd, rule,
                                          Sim_sized(sim.acc, symbol, px, sd, rule,
                                                    SIM_POS_PCT),
                                          px[symbol]),
                        call |-> [n |-> sim.call.n + 1,
                                  ret |-> Sim_apply(sim.acc, px, sd, rule,
                                              Sim_sized(sim.acc, symbol, px, sd, rule,
                                                        SIM_POS_PCT),
                                              px[symbol]) # sim.acc,
                                  side |-> sd, base |-> rule.base, quote |-> rule.quote,
                                  qty |-> Sim_sized(sim.acc, symbol, px, sd, rule,
                                                    SIM_POS_PCT),
                                  price |-> IF px[symbol] = None THEN Zero
                                            ELSE px[symbol],
                                  before |-> sim.acc]]
    /\ UNCHANGED <<engineVars, blendVars, enfVars, bootVars, routerVars, stratVars,
                   gateVars, rulesVars, uniVars, mrVars, floatVars, race, ev, tri>>

InitSim ==
    /\ EngineRest /\ ConfigRest
    /\ BlendIdle /\ EnforceIdle /\ RouterIdle /\ StrategyIdle /\ GateIdle
    /\ RulesIdle /\ UniverseIdle /\ MeanRevIdle /\ FloatIdle /\ ThreadIdle
SpecSim == InitSim /\ [][TradeOnce]_vars

\* C37: trade_once returns False for a BUY whose cost qty*price exceeds the
\* quote balance and for a SELL whose qty exceeds the base balance, and a
\* call that returns False leaves balances, trades, wins and losses as they
\* were; no balance is ever negative; a call that returns True applies
\* exactly the delta of the BUY or SELL and counts one trade, won or lost.
C37_SimulatedFills ==
    LET c  == sim.call
        b0 == c.before.bal
    IN  /\ \A a \in SimAsset : RLe(Zero, sim.acc.bal[a])
        /\ (c.n > 0 /\ ~c.ret) => sim.acc = c.before
        /\ (c.n > 0 /\ c.qty # None /\ c.side = "BUY"
              /\ RLt(b0[c.quote], RMul(c.qty, c.price))) => ~c.ret
        /\ (c.n > 0 /\ c.qty # None /\ c.side = "SELL"
              /\ RLt(b0[c.base], c.qty)) => ~c.ret
        /\ (c.n > 0 /\ c.ret) =>
              /\ c.qty # None
              /\ sim.acc.trades = c.before.trades + 1
              /\ sim.acc.wins + sim.acc.losses = c.before.wins + c.before.losses + 1
              /\ sim.acc.wins >= c.before.wins /\ sim.acc.losses >= c.before.losses
              /\ \A a \in SimAsset \ {c.base, c.quote} : sim.acc.bal[a] = b0[a]
              /\ IF c.side = "BUY"
                 THEN /\ sim.acc.bal[c.quote] = RSub(b0[c.quote], RMul(c.qty, c.price))
                      /\ sim.acc.bal[c.base] = RAdd(b0[c.base], c.qty)
                 ELSE /\ c.side = "SELL"
                      /\ sim.acc.bal[c.base] = RSub(b0[c.base], c.qty)
                      /\ sim.acc.bal[c.quote] = RAdd(b0[c.quote], RMul(c.qty, c.price))

\* after a filled trade, a BUY was turned away for its cost
C37_Witness ==
    /\ sim.call.n > 1 /\ sim.acc.trades > 0
    /\ ~sim.call.ret /\ sim.call.qty # None /\ sim.call.side = "BUY"
    /\ RLt(sim.call.before.bal[sim.call.quote], RMul(sim.call.qty, sim.call.price))

(***************************************************************************)
(* SpecThree: the three enforcers on the same arguments, in binary64:      *)
(* risk.enforce_rules, the sizing inside SimAccount.trade_once and         *)
(* AureonAutopilot._enforce_reality                                        *)
(***************************************************************************)
MaxQtyTenths == 6
TinyShift == 50

\* the float a * 2^-k
Halved(a, k) == IF a.s = 0 THEN a ELSE [a EXCEPT !.e = a.e - k]

\* multi_sim_ws.py:75-78
Sim_floor_to_step64(qty, step) ==
    IF FLe(step, F0) THEN qty
    ELSE FMul(FromInt(FFloor(FDiv(qty, step))), step)
\* multi_sim_ws.py:138-141
Sim_raise64(qty2, price, min_notional) ==
    IF FLt(FMul(qty2, price), min_notional) THEN NoneF ELSE Some(qty2)
\* multi_sim_ws.py:131-141
Sim_notional64(qty, price, min_qty, step, min_notional) ==
    IF FLe(qty, F0) THEN NoneF
    ELSE IF min_notional.s # 0 /\ FLt(FMul(qty, price), min_notional)
         THEN Sim_raise64(
                  Sim_floor_to_step64(FMax(FDiv(min_notional, price), min_qty), step),
                  price, min_notional)
         ELSE Some(qty)
\* multi_sim_ws.py:130
Sim_floored64(qty, step) ==
    IF step.s # 0 THEN Sim_floor_to_step64(qty, step) ELSE qty
\* multi_sim_ws.py:129-141
Sim_sizing64(qty, price, min_qty, step, min_notional) ==
    Sim_notional64(Sim_floored64(FMax(qty, min_qty), step),
                   price, min_qty, step, min_notional)

\* int(a): towards zero
FInt(a) == IF a.s < 0 THEN -FFloor(FNeg(a)) ELSE FFloor(a)
\* autopilot.py:145: the literal 1e-12, the float nearest to 1/10^12
PRICE_FLOOR == FDiv(FromInt(1), FMul(FromInt(1000000), FromInt(1000000)))
\* autopilot.py:145: need_q = min_notional / max(price, 1e-12)
Autopilot_need_q(min_notional, price) == FDiv(min_notional, FMax(price, PRICE_FLOOR))
\* autopilot.py:122-126
Autopilot_floor_to_step64(qty, step) ==
    IF FLe(step, F0) THEN qty
    ELSE FMul(FromInt(FInt(FDiv(qty, step))), step)
\* autopilot.py:147-151
Autopilot_raise64(q2, price, min_notional) ==
    IF FLt(FMul(q2, price), min_notional) THEN NoneF ELSE Some(q2)
\* autopilot.py:146
Autopilot_q2(need, min_qty, step) ==
    IF step.s # 0 THEN Autopilot_floor_to_step64(FMax(need, min_qty), step)
    ELSE FMax(need, min_qty)
\* autopilot.py:137-152
Autopilot_notional64(q, price, min_qty, step, min_notional) ==
    IF FLe(q, F0) THEN NoneF
    ELSE IF min_notional.s # 0 /\ FLt(FMul(q, price), min_notional)
         THEN Autopilot_raise64(
                  Autopilot_q2(Autopilot_need_q(min_notional, price), min_qty, step),
                  price, min_notional)
         ELSE Some(q)
\* autopilot.py:136
Autopilot_floored64(q, step) ==
    IF step.s # 0 THEN Autopilot_floor_to_step64(q, step) ELSE q
\* autopilot.py:128-152
Autopilot_enforce_reality(quantity, price, min_qty, step, min_notional) ==
    Autopilot_notional64(Autopilot_floored64(FMax(quantity, min_qty), step),
                         price, min_qty, step, min_notional)

\* the price of the call
ThreePrice == Halved(FromRat(tri.in.price), tri.in.shift)
ThreeRest == <<engineVars, blendVars, enfVars, bootVars, routerVars, stratVars,
               gateVars, rulesVars, uniVars, mrVars, floatVars, race, ev, sim>>

\* risk.py:10-23
RiskCall ==
    /\ ~tri.risk.called
    /\ tri' = [tri EXCEPT !.risk =
                 [called |-> TRUE,
                  q |-> enforce_rules64(FromRat(tri.in.qty), ThreePrice,
                                        FromRat(tri.in.min_qty), FromRat(tri.in.step),
                                        FromRat(tri.in.min_notional))]]
    /\ UNCHANGED ThreeRest
\* multi_sim_ws.py:129-141
SimSizingCall ==
    /\ ~tri.sim.called
    /\ tri' = [tri EXCEPT !.sim =
                 [called |-> TRUE,
                  q |-> Sim_sizing64(FromRat(tri.in.qty), ThreePrice,
                                     FromRat(tri.in.min_qty), FromRat(tri.in.step),
                                     FromRat(tri.in.min_notional))]]
    /\ UNCHANGED ThreeRest
\* autopilot.py:128-152
RealityCall ==
    /\ ~tri.reality.called
    /\ tri' = [tri EXCEPT !.reality =
                 [called |-> TRUE,
                  q |-> Autopilot_enforce_reality(
                            FromRat(tri.in.qty), ThreePrice,
                            FromRat(tri.in.min_qty), FromRat(tri.in.step),
                            FromRat(tri.in.min_notional))]]
    /\ UNCHANGED ThreeRest

\* quantities in tenths at the prices 1/2 and 3 with the rules of
\* SpecFloat, and prices far below any quoted one without a step
ThreeInputs ==
    {[NoThree EXCEPT !.qty = q, !.price = p, !.min_qty = mq, !.step = st,
                     !.min_notional = mn] :
        q \in {Rat(k, 10) : k \in 0..MaxQtyTenths}, p \in {Rat(1, 2), RInt(3)},
        mq \in {Zero, Rat(3, 10)}, st \in {Zero, Rat(1, 10), Rat(2, 10)},
        mn \in {Zero, Rat(1, 10), RInt(2)}}
    \cup
    {[NoThree EXCEPT !.qty = q, !.price = RInt(1), !.shift = TinyShift,
                     !.min_notional = mn] :
        q \in {Zero, RInt(1)}, mn \in {Zero, RInt(1)}}
InitThree ==
    /\ EngineRest /\ ConfigRest
    /\ BlendIdle /\ EnforceIdle /\ RouterIdle /\ StrategyIdle /\ GateIdle
    /\ RulesIdle /\ UniverseIdle /\ MeanRevIdle /\ FloatIdle
    /\ RaceIdle /\ EvalIdle /\ SimIdle
    /\ \E i \in ThreeInputs :
          tri = [in |-> i, risk |-> NotCalled, sim |-> NotCalled, reality |-> NotCalled]
NextThree == RiskCall \/ SimSizingCall \/ RealityCall
SpecThree == InitThree /\ [][NextThree]_vars

\* C38: for every price > 0, non-negative desired quantity and rule, the
\* three enforcers return the same result: the same quantity, or all reject.
C38_EnforcersAgree ==
    (tri.risk.called /\ tri.sim.called /\ tri.reality.called) =>
        /\ tri.sim.q = tri.risk.q
        /\ tri.reality.q = tri.risk.q

(***************************************************************************)
(* Symbols whose metadata fetch failed (Spec)                              *)
(***************************************************************************)
\* C35: a symbol whose cached rule has no base or quote asset never has an
\* order routed: its counter stays 0 in every state of the run, and, the
\* quota being positive, the loop never reaches its terminal condition.
C35_FailOpenNeverRouted ==
    \A s \in Symbol :
        ~HasAssets(s) =>
            /\ done[s] = 0
            /\ placed[s] = NoOrder
            /\ TARGET_PER_SYMBOL > 0 => pc # "exit"

\* the loop has turned away a BUY or SELL of a symbol without assets while
\* another symbol has had an order routed
C35_Witness ==
    \E s \in Symbol :
        /\ ~HasAssets(s)
        /\ next_t[s] = now + RETRY_SEC
        /\ \E o \in Symbol : done[o] > 0

\* C36: a routed order for symbol s changes only the ledger balances of the
\* base and the quote asset of s; the balance of every other asset and the
\* deadline and the counter of every other symbol are unchanged by it.
C36_RoutedFrame ==
    [][\A s \in Symbol :
          placed'[s].n > placed[s].n =>
              /\ \A a \in Asset \ {rules[s].base, rules[s].quote} : bal'[a] = bal[a]
              /\ \A o \in Symbol \ {s} :
                    /\ next_t'[o] = next_t[o]
                    /\ done'[o] = done[o]
                    /\ placed'[o] = placed[o]]_vars

\* an order was routed for a symbol after one for another symbol, whose
\* counter and deadline it found set
C36_Witness ==
    \E s \in Symbol : \E o \in Symbol \ {s} :
        /\ placed[s].n > 0 /\ placed[o].n > 0
        /\ placed[s].t >= placed[o].t
        /\ done[o] > 0 /\ next_t[o] > 0
        /\ \E a \in Asset \ {rules[s].base, rules[s].quote} : RLt(Zero, bal[a])

(***************************************************************************)
(* The gate of the engine and the gate of the autopilot (SpecGate)         *)
(***************************************************************************)
\* the three comparisons of the gate on the metrics of a readable file, a
\* missing metric counting as 0
WithinThresholds(file, lmin, gmax, qmax) ==
    /\ ~RLt(MetricOr0(file.L), lmin)
    /\ ~RLt(gmax, MetricOr0(file.G_eff))
    /\ ~RLt(qmax, MetricOr0(file.Q))
GateLMin == ParseFloat(Getenv(g_in.env.LIGHTHOUSE_L_MIN, "0.0"))
GateGMax == ParseFloat(Getenv(g_in.env.LIGHTHOUSE_G_MAX, "1.0"))
GateQMax == ParseFloat(Getenv(g_in.env.LIGHTHOUSE_Q_MAX, "1.0"))
InUnit(x) == RLe(Zero, x) /\ RLe(x, RInt(1))

\* C31: when the metrics file is readable, each gate permits iff L >= L_MIN
\* and G_eff <= G_MAX and Q <= Q_MAX, a missing metric counting as 0; with
\* the default thresholds and metrics in [0, 1] it permits.
C31_GateComparisons ==
    g_in.file.ok =>
        /\ g_out.called =>
               /\ g_out.permit = WithinThresholds(g_in.file, GateLMin, GateGMax, GateQMax)
               /\ ( /\ \A k \in {"LIGHTHOUSE_L_MIN", "LIGHTHOUSE_G_MAX", "LIGHTHOUSE_Q_MAX"} :
                          g_in.env[k] = Unset
                    /\ InUnit(MetricOr0(g_in.file.L))
                    /\ InUnit(MetricOr0(g_in.file.G_eff))
                    /\ InUnit(MetricOr0(g_in.file.Q)) ) => g_out.permit
        /\ g_out.ap_called =>
               g_out.ap_permit = WithinThresholds(g_in.file, GateLMin, GateGMax, GateQMax)

\* both gates have answered on a readable file whose G_eff is exactly the
\* configured G_MAX, and permitted
C31_Witness ==
    /\ g_out.called /\ g_out.ap_called
    /\ g_in.file.ok
    /\ g_in.env.LIGHTHOUSE_G_MAX # Unset
    /\ MetricOr0(g_in.file.G_eff) = GateGMax
    /\ g_out.permit /\ g_out.ap_permit

\* C32: for the same metrics file and the same values of the three
\* LIGHTHOUSE_* variables the gate of the engine and the gate of the
\* autopilot return the same boolean.
C32_GatesAgree ==
    (g_out.called /\ g_out.ap_called) => g_out.permit = g_out.ap_permit

====
